---------------------------- MODULE Spec2Model ----------------------------
(***************************************************************************)
(* Verification model of the XV2 codec layer (EMD mesh, ESK skeleton, EAN  *)
(* animation, EMB texture container, EMM material and BCS character-build  *)
(* codecs).  Each part of the codec layer has its own variables, its own   *)
(* initial condition and its own specification; the variables of the       *)
(* other parts stay at their idle values.                                  *)
(***************************************************************************)
EXTENDS Integers, Sequences, FiniteSets, TLC

VARIABLES
    \* EMD exporter, _collect_vertex_data_for_material
    vertices,           \* list[EMD_Vertex]
    triangle_groups,    \* list[EMD_Triangles]: [indices, bone_names]
    tri_log,            \* history: the triangles processed so far
    \* EMD vertex layout
    sub_hdr,            \* submesh header: [vertex_flags, vertex_size, vertex_count]
    vread,              \* outcome of read_vertices inside parse_emd
    vwritten,           \* what _write_emd emitted for the submesh's vertices
    \* EAN exporters
    ean_job,            \* the input of one animation export
    ean_out,            \* the components the exporter emitted
    \* EMD triangle groups through _write_emd and parse_emd
    emd_tree,           \* the triangle groups of the submesh to write
    emd_bytes,          \* the written submesh block
    emd_parsed,         \* the triangle groups parse_emd decodes from it
    emd_stage,          \* "tree", "written", "parsed"
    \* skeleton codecs
    skel_arm,           \* the armature to export
    esk_file,           \* the file export_esk wrote
    esk_parsed,         \* what parse_esk decodes from it
    ean_file,           \* header and skeleton of the file export_ean wrote
    ean_parsed,         \* what _parse_skeleton decodes from it
    \* decoders on files as found on disk
    dec_data,           \* the content of the file
    dec_result,         \* what one decoder returned or raised for it
    \* EAN importer, _interp_component
    ic_comp,            \* comp.keyframes of the sampled component
    ic_default,         \* default_vals
    ic_out,             \* the sampled frame and the returned values
    \* BCS part sets
    bcs_doc,            \* the part-set table of the file on disk
    bcs_out,            \* what read_bcs_bytes returned or raised for it
    \* _bone_child_sibling_indices
    link_in,            \* the bones handed to the function
    link_out,           \* the bones after the call
    \* The EMD tree through _write_emd and parse_emd
    tree_doc,           \* the models of the EMD_File to write
    tree_file,          \* the written bytes and where each structure was put
    tree_zero,          \* the pointer-table entry of the file that was zeroed
    tree_parsed,        \* what parse_emd returned or raised
    \* The indices of one triangle group through _write_emd and parse_emd
    width_doc,          \* the number of indices and the one large index
    width_file,         \* the written file, or that _write_emd raised
    width_indices,      \* the indices parse_emd decoded
    \* One EAN animation block through the exporters and _parse_animation
    kf_job,             \* the export job
    kf_file,            \* the file with the block, or that the exporter raised
    kf_patch,           \* the type byte put into a component of the file
    kf_parsed,          \* what _parse_animation returned or raised
    \* The UV channels of one vertex through import and export
    uv_src,             \* the flags and the UV values stored in the file
    uv_vertex,          \* the UVs of the vertex read_vertices decoded
    uv_layers,          \* the UV layers of the imported mesh
    uv_built,           \* the UVs of the vertex the exporter collected
    uv_out,             \* the vertex bytes _write_emd wrote
    \* export_ean and the operator EXPORT_OT_ean
    xp_job,             \* the actions of the file and how the call goes
    xp_before,          \* active action and current frame before the call
    xp_host,            \* active action and current frame now
    xp_result,          \* what export_ean returned and the file it wrote
    xp_op,              \* what the operator reported and returned
    xp_parsed,          \* the animations read_ean_bytes decodes from the file
    xp_stage,           \* before or after the call
    \* export_esk with a source template
    tp_arm,             \* the armature and the file of its esk_source_path
    tp_result,          \* what export_esk wrote
    tp_layout,          \* _read_skeleton_layout of the written file
    \* EMD exporter, vertex de-duplication
    dd_vertices,        \* list[EMD_Vertex]
    dd_groups,          \* list[EMD_Triangles]
    dd_log,             \* the corners processed so far
    \* recursion over parent indices
    rc_fn,              \* the function that runs
    rc_bones,           \* the bones of the skeleton
    rc_stack,           \* the chain of active calls
    rc_memo,            \* keys of the computed matrices
    rc_count,           \* computations per bone
    rc_next,            \* next bone of the loop
    rc_status           \* running, returned or RecursionError

paletteVars == <<vertices, triangle_groups, tri_log>>

vertexVars == <<sub_hdr, vread, vwritten>>

animVars == <<ean_job, ean_out>>

emdVars == <<emd_tree, emd_bytes, emd_parsed, emd_stage>>

skelVars == <<skel_arm, esk_file, esk_parsed, ean_file, ean_parsed>>

decVars == <<dec_data, dec_result>>

interpVars == <<ic_comp, ic_default, ic_out>>

bcsVars == <<bcs_doc, bcs_out>>

linkVars == <<link_in, link_out>>

treeVars == <<tree_doc, tree_file, tree_zero, tree_parsed>>

widthVars == <<width_doc, width_file, width_indices>>

kfVars == <<kf_job, kf_file, kf_patch, kf_parsed>>

uvVars == <<uv_src, uv_vertex, uv_layers, uv_built, uv_out>>

xpVars == <<xp_job, xp_before, xp_host, xp_result, xp_op, xp_parsed, xp_stage>>

tplVars == <<tp_arm, tp_result, tp_layout>>

ddVars == <<dd_vertices, dd_groups, dd_log>>

recVars == <<rc_fn, rc_bones, rc_stack, rc_memo, rc_count, rc_next, rc_status>>

vars == <<paletteVars, vertexVars, animVars, emdVars, skelVars, decVars, interpVars, bcsVars, linkVars, treeVars, widthVars, kfVars, uvVars, xpVars, tplVars, ddVars, recVars>>

(***************************************************************************)
(* Generic helpers                                                         *)
(***************************************************************************)
Range(s) == {s[i] : i \in 1..Len(s)}

Min2(a, b) == IF a < b THEN a ELSE b

Max2(a, b) == IF a > b THEN a ELSE b

RECURSIVE Gcd(_, _)
Gcd(a, b) == IF b = 0 THEN a ELSE Gcd(b, a % b)

\* A non-negative rational n/d in lowest terms, as <<n, d>>; 0 is <<0, 1>>.
Frac(n, d) == IF n = 0 THEN <<0, 1>> ELSE <<n \div Gcd(n, d), d \div Gcd(n, d)>>

FracZero == <<0, 1>>

FracOne == <<1, 1>>

FracPos(q) == q[1] > 0

\* Strict binding: x is evaluated once and F applied to its value.  (TLC
\* evaluates operator arguments and LET definitions again at every use.)
Bind(x, F(_)) == CHOOSE v \in {F(y) : y \in {x}} : TRUE

\* First 1-based position of x in s, 0 when absent.
IndexOf(x, s) ==
    IF \E i \in 1..Len(s) : s[i] = x
    THEN CHOOSE i \in 1..Len(s) : s[i] = x /\ \A j \in 1..(i - 1) : s[j] # x
    ELSE 0

Reverse(s) == [i \in 1..Len(s) |-> s[Len(s) + 1 - i]]

(***************************************************************************)
(* Byte buffers.  A buffer is a sequence of bytes 0..255; offsets are      *)
(* 0-based as in the code, so the byte at offset o is data[o + 1].         *)
(***************************************************************************)
Zeros(n) == [i \in 1..n |-> 0]

\* struct.pack("<H", n) and struct.pack("<I", n)
U16(n) == <<n % 256, (n \div 256) % 256>>

U32(n) == <<n % 256, (n \div 256) % 256, (n \div 65536) % 256, (n \div 16777216) % 256>>

\* struct.pack("<h", n): two's complement on 16 bits
I16(n) == U16((n + 65536) % 65536)

\* struct.unpack_from("<H" / "<I" / "<h", data, off)[0]; the 32-bit values
\* of the modelled files stay below 2^31.
Rd16(data, off) == data[off + 1] + 256 * data[off + 2]

Rd32(data, off) ==
    data[off + 1] + 256 * data[off + 2] + 65536 * data[off + 3] + 16777216 * data[off + 4]

\* A faulty variant of RdI16 that reads the field as unsigned ("<H").
RdI16Unsigned(data, off) == Rd16(data, off)

RdI16(data, off) == IF Rd16(data, off) >= 32768 THEN Rd16(data, off) - 65536 ELSE Rd16(data, off)

\* struct.unpack_from(fmt, data, off) raises struct.error unless the n bytes
\* of fmt at off lie inside the buffer.  The offsets of the modelled buffers
\* are never negative.
InBuf(data, off, n) == off >= 0 /\ off + n <= Len(data)

\* struct.pack_into: bs written over data at offset pos (the buffer and the
\* result are kept as sequence values)
Poke(data, pos, bs) ==
    Bind(data \o <<>>, LAMBDA d :
        [i \in 1..Len(d) |-> IF i > pos /\ i <= pos + Len(bs) THEN bs[i - pos] ELSE d[i]]
        \o <<>>)

\* _pad_data(data, alignment)
_pad_data(data, alignment) == data \o Zeros((alignment - (Len(data) % alignment)) % alignment)

\* utils.read_cstring(data, offset): the bytes from offset up to the first
\* NUL or the end of the buffer, whichever comes first.
CStringEnd(data, offset) ==
    IF \E e \in offset..(Len(data) - 1) : data[e + 1] = 0
    THEN CHOOSE e \in offset..(Len(data) - 1) :
            data[e + 1] = 0 /\ \A k \in offset..(e - 1) : data[k + 1] # 0
    ELSE Max2(offset, Len(data))

read_cstring(data, offset) ==
    [i \in 1..(CStringEnd(data, offset) - offset) |-> data[offset + i]]

(***************************************************************************)
(* EMD exporter: bone-palette partitioning                                 *)
(*                                                                         *)
(* Bone names are the numbers 1..NumBones; EmptyName is the empty string   *)
(* "" that gather_influences pads with.                                    *)
(***************************************************************************)
MAX_BONES_PER_TRIANGLE_GROUP == 24

EmptyName == 0

\* Bounds of the palette model.
NumBones == 26
MaxTris == 4

\* _create_palette_index: the palette after the call and the returned index.
\* bone_palette_lookup mirrors bone_names (name -> position), so the pair is
\* modelled by the list alone.
_create_palette_index(bone_name, palette_list) ==
    IF IndexOf(bone_name, palette_list) > 0
    THEN [palette |-> palette_list, index |-> IndexOf(bone_name, palette_list) - 1]
    ELSE [palette |-> Append(palette_list, bone_name), index |-> Len(palette_list)]

\* "for name in ...: _create_palette_index(name, palette_map, bone_names)"
RECURSIVE AddAll(_, _)
AddAll(names, palette_list) ==
    IF names = <<>> THEN palette_list
    ELSE Bind(_create_palette_index(Head(names), palette_list).palette,
              LAMBDA p : AddAll(Tail(names), p))

\* new_bones = [name for name in required_bones if name not in palette_map]
NewBones(required_bones, palette_list) ==
    SelectSeq(required_bones, LAMBDA n : IndexOf(n, palette_list) = 0)

\* The capacity test of the first-fit loop.
GroupFits(required_bones, palette_list) ==
    Len(palette_list) + Len(NewBones(required_bones, palette_list))
        <= MAX_BONES_PER_TRIANGLE_GROUP

\* A faulty variant of FirstFit that takes the last group that passes the
\* capacity test.
LastFit(required_bones, groups) ==
    IF \E i \in 1..Len(groups) : GroupFits(required_bones, groups[i].bone_names)
    THEN CHOOSE i \in 1..Len(groups) :
            /\ GroupFits(required_bones, groups[i].bone_names)
            /\ \A j \in (i + 1)..Len(groups) : ~GroupFits(required_bones, groups[j].bone_names)
    ELSE 0

\* First group (1-based) that passes the capacity test, 0 when none does.
FirstFit(required_bones, groups) ==
    IF \E i \in 1..Len(groups) : GroupFits(required_bones, groups[i].bone_names)
    THEN CHOOSE i \in 1..Len(groups) :
            /\ GroupFits(required_bones, groups[i].bone_names)
            /\ \A j \in 1..(i - 1) : ~GroupFits(required_bones, groups[j].bone_names)
    ELSE 0

\* _get_or_create_triangle_group: the group list after the call and the
\* (1-based) position of the returned group.
_get_or_create_triangle_group(required_bones, groups) ==
    Bind(FirstFit(required_bones, groups), LAMBDA hit :
        IF hit > 0
        THEN [groups |-> [groups EXCEPT ![hit].bone_names =
                              AddAll(NewBones(required_bones, @), @)],
              at |-> hit]
        ELSE [groups |-> Append(groups,
                            [indices |-> <<>>,
                             bone_names |-> AddAll(SubSeq(required_bones, 1,
                                              Min2(Len(required_bones),
                                                   MAX_BONES_PER_TRIANGLE_GROUP)), <<>>)]),
              at |-> Len(groups) + 1])

\* influences.sort(key=lambda item: item[1], reverse=True): a stable sort, so
\* influences of equal weight keep their order.  Rank(s, i) is the position
\* of s[i] after the sort.
Rank(s, i) ==
    Cardinality({j \in 1..Len(s) :
                    \/ s[j].weight > s[i].weight
                    \/ (s[j].weight = s[i].weight /\ j <= i)})

SortDesc(s) == [r \in 1..Len(s) |-> s[CHOOSE i \in 1..Len(s) : Rank(s, i) = r]]

RECURSIVE SumWeights(_)
SumWeights(s) == IF s = <<>> THEN 0 ELSE Head(s).weight + SumWeights(Tail(s))

\* arm_obj.data.bones: the names of the bones of the armature.  AbsentBone
\* is the name of a vertex group that has no bone in the armature.
ArmatureBones == 1..NumBones

AbsentBone == NumBones + 1

\* The first loop of gather_influences: a group element whose vertex group
\* names no bone of the armature is passed over with "continue".
KnownInfluences(groups) == SelectSeq(groups, LAMBDA g : g.name \in ArmatureBones)

\* gather_influences: groups is the vertex's list of [name, weight] with raw
\* integer weights (units of the smallest weight); the result is four
\* [name, weight] pairs with exact rational weights.
gather_influences(groups) ==
    Bind(SubSeq(SortDesc(KnownInfluences(groups)), 1,
                Min2(4, Len(KnownInfluences(groups)))), LAMBDA top :
    Bind(SumWeights(top), LAMBDA total_weight :
        [i \in 1..Len(top) |->
            [name |-> top[i].name,
             weight |-> IF total_weight > 0
                        THEN Frac(top[i].weight, total_weight)
                        ELSE FracZero]]
        \o [i \in 1..(4 - Len(top)) |-> [name |-> EmptyName, weight |-> FracZero]]))

\* tri_bones_ordered: the distinct names of the positively weighted, named
\* influences of the triangle's corners, in first-seen order (exporter.py
\* 166-170); infl is the corners' influences one after the other.
TriBonesOrdered(infl) ==
    Bind(SelectSeq(infl, LAMBDA i : FracPos(i.weight) /\ i.name # EmptyName),
         LAMBDA named : AddAll([k \in 1..Len(named) |-> named[k].name], <<>>))

\* The loop over one vertex's influences (exporter.py 183-193): every named
\* influence, whatever its weight, goes through _create_palette_index.
RECURSIVE CornerIds(_, _)
CornerIds(influences, st) ==
    IF influences = <<>> THEN st
    ELSE Bind(IF Head(influences).name # EmptyName
              THEN _create_palette_index(Head(influences).name, st.palette)
              ELSE [palette |-> st.palette, index |-> 0],
              LAMBDA r : CornerIds(Tail(influences),
                            [palette |-> r.palette, ids |-> Append(st.ids, r.index)]))

AllZero(weights) == \A i \in 1..Len(weights) : ~FracPos(weights[i])

\* bone_ids / bone_weights as stored on the vertex (exporter.py 195-203).
StoredIds(ids, weights) ==
    IF AllZero(weights) THEN <<ids[1], 0, 0, 0>> ELSE Reverse(ids)

StoredWeights(weights) ==
    IF AllZero(weights) THEN <<FracZero, FracZero, FracZero, FracOne>>
    ELSE Reverse(weights)

\* The de-duplication key of a vertex (exporter.py 205-212).
VertexKey(vtx) == <<vtx.pos, vtx.bone_ids, vtx.bone_weights>>

\* vertex_lookup[key]: the index (0-based) of the vertex stored under that
\* key, -1 when the key is not in the dictionary.  A key enters the
\* dictionary exactly when its vertex is appended.
VertexLookup(key, verts) ==
    IF \E i \in 1..Len(verts) : VertexKey(verts[i]) = key
    THEN (CHOOSE i \in 1..Len(verts) :
            /\ VertexKey(verts[i]) = key
            /\ \A j \in 1..(i - 1) : VertexKey(verts[j]) # key) - 1
    ELSE -1

\* One pass of "for vtx, influences in tri_vertices" (exporter.py 179-219);
\* st is [palette, vertices, indices].
EmitCorner(tv, st) ==
    Bind(CornerIds(tv.influences, [palette |-> st.palette, ids |-> <<>>]), LAMBDA r :
    Bind([pos |-> tv.pos,
          bone_ids |-> StoredIds(r.ids, [i \in 1..4 |-> tv.influences[i].weight]),
          bone_weights |-> StoredWeights([i \in 1..4 |-> tv.influences[i].weight])],
         LAMBDA vtx :
    Bind(VertexLookup(VertexKey(vtx), st.vertices), LAMBDA found :
        [palette |-> r.palette,
         vertices |-> IF found >= 0 THEN st.vertices ELSE Append(st.vertices, vtx),
         indices |-> Append(st.indices,
                            IF found >= 0 THEN found ELSE Len(st.vertices))])))

RECURSIVE EmitCorners(_, _)
EmitCorners(tri_vertices, st) ==
    IF tri_vertices = <<>> THEN st
    ELSE Bind(EmitCorner(Head(tri_vertices), st),
              LAMBDA st2 : EmitCorners(Tail(tri_vertices), st2))

(***************************************************************************)
(* The input triangles.  Tri(s, k, z) is a triangle whose corners carry    *)
(* the k bones s..s+k-1 with weight 1 each, four per corner, and, when     *)
(* z # 0, one more influence of weight 0 on bone z at the last corner      *)
(* that has a free slot.                                                   *)
(***************************************************************************)
CornerGroups(s, k, z, c) ==
    LET lo == s + 4 * (c - 1)
        hi == Min2(s + 4 * c - 1, s + k - 1)
        pos == [i \in 1..Max2(0, hi - lo + 1) |-> [name |-> lo + i - 1, weight |-> 1]]
        zc == IF k >= 12 THEN 0 ELSE (k \div 4) + 1
    IN  IF z # 0 /\ c = zc THEN Append(pos, [name |-> z, weight |-> 0]) ELSE pos

Tri(s, k, z) == [c \in 1..3 |-> [pos |-> c, groups |-> CornerGroups(s, k, z, c)]]

\* A triangle on bone 1 whose first corner is also weighted, with weight 2,
\* to a vertex group without a bone in the armature.
TriAbsent ==
    [Tri(1, 1, 0) EXCEPT ![1].groups = Append(@, [name |-> AbsentBone, weight |-> 2])]

\* A triangle whose first corner has five influences, on bones 1..5 with
\* the weights 5, 4, 3, 2, 1.
TriFive ==
    [Tri(1, 0, 0) EXCEPT ![1].groups = [i \in 1..5 |-> [name |-> i, weight |-> 6 - i]]]

TriMenu ==
    {Tri(1, 12, 0), Tri(13, 12, 0), Tri(13, 11, 0), Tri(25, 1, 0),
     Tri(1, 1, NumBones), Tri(24, 1, NumBones), Tri(1, 0, 0), Tri(1, 0, NumBones),
     TriAbsent, TriFive}

\* One iteration of "for tri in mesh.loop_triangles" (exporter.py 125-219)
\* on the lists held in st = [vertices, triangle_groups]: the lists after
\* it and what it did.  The iteration has no raise and reports nothing
\* (export_selected prints only the exceptions of _write_emd), so the errors
\* logged for it are none.
_collect_triangle(tri, st) ==
    Bind([c \in 1..3 |-> [pos |-> tri[c].pos,
                          influences |-> gather_influences(tri[c].groups)]],
         LAMBDA tri_vertices :
    Bind(TriBonesOrdered(tri_vertices[1].influences \o tri_vertices[2].influences
                         \o tri_vertices[3].influences),
         LAMBDA tri_bones_ordered :
    Bind(_get_or_create_triangle_group(tri_bones_ordered, st.triangle_groups),
         LAMBDA g :
    Bind(EmitCorners(tri_vertices,
                     [palette |-> g.groups[g.at].bone_names,
                      vertices |-> st.vertices,
                      indices |-> g.groups[g.at].indices]),
         LAMBDA e :
        [vertices |-> e.vertices,
         triangle_groups |-> [g.groups EXCEPT ![g.at] =
                                 [indices |-> e.indices, bone_names |-> e.palette]],
         entry |-> [tri |-> tri,
                    influences |-> [c \in 1..3 |-> tri_vertices[c].influences],
                    required_bones |-> tri_bones_ordered,
                    errors |-> <<>>,
                    group |-> g.at,
                    corners |-> SubSeq(e.indices, Len(e.indices) - 2,
                                       Len(e.indices))]]))))

\* The loop "for tri in mesh.loop_triangles", one triangle per step.
CollectTriangle(tri) ==
    /\ Len(tri_log) < MaxTris
    /\ \E r \in {_collect_triangle(tri, [vertices |-> vertices,
                                          triangle_groups |-> triangle_groups])} :
          /\ vertices' = r.vertices
          /\ triangle_groups' = r.triangle_groups
          /\ tri_log' = Append(tri_log, r.entry)

CollectStep == \E tri \in TriMenu : CollectTriangle(tri)

PaletteInit ==
    /\ vertices = <<>>
    /\ triangle_groups = <<>>
    /\ tri_log = <<>>


(***************************************************************************)
(* EMD vertex layout: get_vertex_size_from_flags, read_vertices and the    *)
(* vertex block written by _write_emd.                                     *)
(*                                                                         *)
(* sub_hdr is one submesh header: the vertex flags, the vertex size and    *)
(* the vertex count, as found in a file (the parser reads the three fields *)
(* at sub_off + 48, + 52, + 56) and as held by an EMD_Submesh (the writer  *)
(* takes vertex_flags and len(vertices) from it).  The vertex data itself  *)
(* does not decide how many bytes are consumed, so only the byte counts    *)
(* are modelled; the buffer is long enough for every read.                 *)
(***************************************************************************)
VERTEX_POSITION == 1
VERTEX_NORMAL == 2
VERTEX_TEXUV == 4
VERTEX_TEX2UV == 8
VERTEX_COLOR == 64
VERTEX_TANGENT == 128
VERTEX_BLENDWEIGHT == 512
VERTEX_COMPRESSED == 32768

\* Bound: the largest vertex count of a submesh header.
MaxVertexCount == 2

\* flags & bit, for a single-bit mask.
HasFlag(flags, bit) == (flags \div bit) % 2 = 1

\* a | b for masks without a common bit.
FlagOr(a, b) == a + b

get_vertex_size_from_flags(flags) ==
    LET is_comp == HasFlag(flags, VERTEX_COMPRESSED)
    IN  (IF HasFlag(flags, VERTEX_POSITION) THEN 3 * 4 ELSE 0)
      + (IF HasFlag(flags, VERTEX_NORMAL) THEN (IF is_comp THEN 4 * 2 ELSE 3 * 4) ELSE 0)
      + (IF HasFlag(flags, VERTEX_TEXUV) THEN 2 * (IF is_comp THEN 2 ELSE 4) ELSE 0)
      + (IF HasFlag(flags, VERTEX_TEX2UV) THEN 2 * (IF is_comp THEN 2 ELSE 4) ELSE 0)
      + (IF HasFlag(flags, VERTEX_TANGENT) THEN (IF is_comp THEN 4 * 2 ELSE 3 * 4) ELSE 0)
      + (IF HasFlag(flags, VERTEX_COLOR) THEN 4 ELSE 0)
      + (IF HasFlag(flags, VERTEX_BLENDWEIGHT)
         THEN 4 + (IF is_comp THEN 4 * 2 ELSE 3 * 4) ELSE 0)

\* bytes_read of read_vertices after the channels of one vertex: every
\* channel present advances by the size of that channel alone.
ChannelRead(flags, bit) ==
    IF ~HasFlag(flags, bit) THEN 0
    ELSE IF HasFlag(flags, VERTEX_COMPRESSED) /\ bit # VERTEX_COLOR
         THEN get_vertex_size_from_flags(FlagOr(bit, VERTEX_COMPRESSED))
         ELSE get_vertex_size_from_flags(bit)

BytesReadPerVertex(flags) ==
      (IF HasFlag(flags, VERTEX_POSITION)
       THEN get_vertex_size_from_flags(VERTEX_POSITION) ELSE 0)
    + ChannelRead(flags, VERTEX_NORMAL)
    + ChannelRead(flags, VERTEX_TEXUV)
    + ChannelRead(flags, VERTEX_TEX2UV)
    + ChannelRead(flags, VERTEX_TANGENT)
    + ChannelRead(flags, VERTEX_COLOR)
    + ChannelRead(flags, VERTEX_BLENDWEIGHT)

\* read_vertices(flags, data, offset, vertex_count, vertex_size): the size
\* test sits at the end of the loop body, so it runs once per vertex.
read_vertices(flags, vertex_count, vertex_size) ==
    IF vertex_count > 0 /\ BytesReadPerVertex(flags) # vertex_size
    THEN [status |-> "ValueError", vertices |-> 0,
          bytes_read |-> BytesReadPerVertex(flags)]
    ELSE [status |-> "ok", vertices |-> vertex_count,
          bytes_read |-> IF vertex_count > 0 THEN BytesReadPerVertex(flags) ELSE 0]

\* The bytes _write_emd appends for one vertex (exporter.py 575-645); the
\* position is packed whatever the flags are.
BytesWrittenPerVertex(flags) ==
    LET is_comp == HasFlag(flags, VERTEX_COMPRESSED)
    IN  3 * 4
      + (IF HasFlag(flags, VERTEX_NORMAL) THEN (IF is_comp THEN 3 * 2 + 2 ELSE 3 * 4) ELSE 0)
      + (IF HasFlag(flags, VERTEX_TEXUV) THEN (IF is_comp THEN 2 * 2 ELSE 2 * 4) ELSE 0)
      + (IF HasFlag(flags, VERTEX_TEX2UV) THEN (IF is_comp THEN 2 * 2 ELSE 2 * 4) ELSE 0)
      + (IF HasFlag(flags, VERTEX_TANGENT) THEN (IF is_comp THEN 3 * 2 + 2 ELSE 3 * 4) ELSE 0)
      + (IF HasFlag(flags, VERTEX_COLOR) THEN 4 ELSE 0)
      + (IF HasFlag(flags, VERTEX_BLENDWEIGHT)
         THEN 4 + (IF is_comp THEN 3 * 2 + 2 ELSE 3 * 4) ELSE 0)

\* Every combination of the eight vertex flags.
FlagMenu ==
    {b[1] * VERTEX_POSITION + b[2] * VERTEX_NORMAL + b[3] * VERTEX_TEXUV
     + b[4] * VERTEX_TEX2UV + b[5] * VERTEX_COLOR + b[6] * VERTEX_TANGENT
     + b[7] * VERTEX_BLENDWEIGHT + b[8] * VERTEX_COMPRESSED : b \in [1..8 -> {0, 1}]}

\* The vertex sizes a header may declare for the given flags: the derived
\* size and two that differ from it.
DeclaredSizes(flags) ==
    {get_vertex_size_from_flags(flags), get_vertex_size_from_flags(flags) + 4, 0}

VertexIdleResult == [status |-> "idle"]

\* parse_emd on the submesh (EMD.py 385-393): reads the header fields and
\* calls read_vertices; an exception of read_vertices ends parse_emd.
ParseSubmeshVertices ==
    /\ vread.status = "idle"
    /\ vread' = read_vertices(sub_hdr.vertex_flags, sub_hdr.vertex_count,
                              sub_hdr.vertex_size)
    /\ UNCHANGED <<sub_hdr, vwritten>>

\* _write_emd on the submesh (exporter.py 466-476, 572-645): stores the
\* derived stride in the header and appends the vertices.
WriteSubmeshVertices ==
    /\ vwritten.status = "idle"
    /\ vwritten' = [status |-> "ok",
                    vertex_size |-> get_vertex_size_from_flags(sub_hdr.vertex_flags),
                    vertices |-> sub_hdr.vertex_count,
                    bytes |-> sub_hdr.vertex_count
                                * BytesWrittenPerVertex(sub_hdr.vertex_flags)]
    /\ UNCHANGED <<sub_hdr, vread>>

VertexInit ==
    /\ \E flags \in FlagMenu : \E n \in 0..MaxVertexCount :
       \E size \in DeclaredSizes(flags) :
          sub_hdr = [vertex_flags |-> flags, vertex_size |-> size, vertex_count |-> n]
    /\ vread = VertexIdleResult
    /\ vwritten = VertexIdleResult

VertexIdle ==
    /\ sub_hdr = [vertex_flags |-> 0, vertex_size |-> 0, vertex_count |-> 0]
    /\ vread = VertexIdleResult
    /\ vwritten = VertexIdleResult

(***************************************************************************)
(* EAN exporters: the keyframes of the emitted components.                 *)
(*                                                                         *)
(* ean_job is the input of one export: for the character exporter the      *)
(* frames keyed per bone and component (frames_by_bone after the loop over *)
(* action.fcurves; the bones are esk.bones without the root, all present   *)
(* in the armature) and the add_dummy_rest option; for the camera exporter *)
(* the frames collected from the source actions and whether the rig has a  *)
(* target.  A keyframe is <<frame, sample>>, where sample is the frame at  *)
(* which its values were sampled.                                          *)
(***************************************************************************)
\* Bound of the animation model: the largest keyed frame.
MaxFrame == 2

\* esk.bones without the root (index 0), by name.
AnimBones == <<"b_A", "b_B">>

FrameSets == SUBSET (0..MaxFrame)

\* sorted(S) for a set of numbers.
Sorted(S) ==
    [i \in 1..Cardinality(S) |-> CHOOSE x \in S : Cardinality({y \in S : y < x}) = i - 1]

SetMax(S) == CHOOSE x \in S : \A y \in S : y <= x

SetMin(S) == CHOOSE x \in S : \A y \in S : x <= y

\* The component types (ComponentType.Position, Rotation, Scale).
ComponentTypes == <<"pos", "rot", "scl">>

\* dummy_bones (exporter_char.py 370-382).
DummyBones(job) ==
    IF job.add_dummy_rest
    THEN {b \in 1..Len(AnimBones) :
            job.frames[b].pos = {} /\ job.frames[b].rot = {} /\ job.frames[b].scl = {}}
    ELSE {}

\* frames_by_bone after the dummy bones got frame 0 in every component.
FramesByBone(job) ==
    [b \in 1..Len(AnimBones) |->
        IF b \in DummyBones(job) THEN [pos |-> {0}, rot |-> {0}, scl |-> {0}]
        ELSE job.frames[b]]

GlobalFrames(fbb) ==
    UNION {fbb[b].pos \cup fbb[b].rot \cup fbb[b].scl : b \in 1..Len(AnimBones)}

\* build_component nested in _build_animation_bytes: the keyframe list, or
\* <<>> for "return None".
build_component(frames, pad_last, frame_count) ==
    IF frames = {} THEN <<>>
    ELSE LET keyframes == [i \in 1..Cardinality(frames) |->
                              <<Sorted(frames)[i], Sorted(frames)[i]>>]
             end_frame == frame_count - 1
             padded_first == IF keyframes[1][1] # 0
                             THEN <<<<0, keyframes[1][2]>>>> \o keyframes
                             ELSE keyframes
         IN  IF pad_last /\ padded_first[Len(padded_first)][1] # end_frame
             THEN Append(padded_first, <<end_frame, padded_first[Len(padded_first)][2]>>)
             ELSE padded_first

\* The components of one bone: [type, keyframes] for every component type
\* with a keyed frame, in the order Position, Rotation, Scale.
BoneComponents(bone_frames, dummy_only, frame_count) ==
    LET all == [t \in 1..3 |->
                   [type |-> ComponentTypes[t],
                    keyframes |-> build_component(bone_frames[ComponentTypes[t]],
                                                  ~dummy_only, frame_count)]]
    IN  SelectSeq(all, LAMBDA comp : comp.keyframes # <<>>)

\* _build_animation_bytes up to the node list (exporter_char.py 333-491).
\* nodes[b] is the component list of bone b, <<>> when the bone gets no node.
_build_animation_bytes(job) ==
    LET fbb == FramesByBone(job)
        global_frames == GlobalFrames(fbb)
    IN  IF global_frames = {} THEN [status |-> "empty", frame_count |-> 0, nodes |-> <<>>]
        ELSE [status |-> "ok",
              frame_count |-> SetMax(global_frames) + 1,
              nodes |-> [b \in 1..Len(AnimBones) |->
                            BoneComponents(fbb[b], b \in DummyBones(job),
                                           SetMax(global_frames) + 1)]]

\* _calc_edge_frames of the camera exporter.
_calc_edge_frames(keyframes, frame_count) ==
    IF keyframes = <<>> THEN keyframes
    ELSE LET frames == {keyframes[i][1] : i \in 1..Len(keyframes)}
             first == SetMin(frames)
             last == SetMax(frames)
             end_frame == Max2(frame_count - 1, last)
             by_frame == [f \in frames \cup {0, end_frame} |->
                             IF f \in frames THEN <<f, f>>
                             ELSE IF f = 0 THEN <<0, first>> ELSE <<end_frame, last>>]
         IN  [i \in 1..Cardinality(DOMAIN by_frame) |-> by_frame[Sorted(DOMAIN by_frame)[i]]]

\* export_cam_ean for one base name (exporter_cam.py 237-330): every
\* component is sampled at the same frames.
export_cam_components(job) ==
    LET frames == IF job.frames = {} THEN {0} ELSE job.frames
        frame_count == SetMax(frames) + 1
        sampled == [i \in 1..Cardinality(frames) |-> <<Sorted(frames)[i], Sorted(frames)[i]>>]
        comp(type) == [type |-> type, keyframes |-> _calc_edge_frames(sampled, frame_count)]
    IN  [status |-> "ok",
         frame_count |-> frame_count,
         nodes |-> << <<comp("pos"), comp("scl")>>
                       \o (IF job.has_target THEN <<comp("target")>> ELSE <<>>) >>]

\* The frames keyed on one bone: the bone is keyed at the frames K on the
\* channels m (location -> pos, rotation_quaternion -> rot, scale -> scl).
BoneFrameMenu ==
    {[pos |-> IF "pos" \in m THEN K ELSE {},
      rot |-> IF "rot" \in m THEN K ELSE {},
      scl |-> IF "scl" \in m THEN K ELSE {}] :
        K \in FrameSets, m \in SUBSET {"pos", "rot", "scl"}}

CharJobs ==
    [kind : {"char"}, add_dummy_rest : BOOLEAN,
     frames : [1..Len(AnimBones) -> BoneFrameMenu]]

CamJobs == [kind : {"cam"}, frames : FrameSets, has_target : BOOLEAN]

AnimIdleResult == [status |-> "idle"]

\* export_ean -> _build_animation_bytes
BuildCharAnimation ==
    /\ ean_job.kind = "char"
    /\ ean_out.status = "idle"
    /\ ean_out' = _build_animation_bytes(ean_job)
    /\ UNCHANGED ean_job

\* export_cam_ean
BuildCamAnimation ==
    /\ ean_job.kind = "cam"
    /\ ean_out.status = "idle"
    /\ ean_out' = export_cam_components(ean_job)
    /\ UNCHANGED ean_job

AnimInit ==
    /\ ean_job \in CharJobs \cup CamJobs
    /\ ean_out = AnimIdleResult

AnimIdle ==
    /\ ean_job = [kind |-> "none"]
    /\ ean_out = AnimIdleResult

(***************************************************************************)
(* EMD triangle groups through _write_emd and parse_emd.                   *)
(*                                                                         *)
(* emd_tree is the list of triangle groups of one EMD_Submesh, each        *)
(* [indices, bone_names]; a name is its UTF-8 byte string.  emd_bytes is   *)
(* the submesh block of the written file from sub_off on (every pointer    *)
(* inside it is relative to sub_off or to the triangle group); the         *)
(* submesh has no name, no vertices and no sampler.                        *)
(***************************************************************************)
\* Bound: the number of triangle groups of the submesh.
MaxTriGroups == 2

\* "NULL" and "b" as bytes; <<>> is the empty name.
NULL_NAME == <<78, 85, 76, 76>>

NameMenu == {<<>>, NULL_NAME, <<98>>}

IndexMenu == {<<>>, <<0, 1, 2>>, <<0, 258, 1>>}

PackIndices(indices, use_32) ==
    LET width == IF use_32 THEN 4 ELSE 2
        place(i) == IF i % width = 0 THEN 1 ELSE IF i % width = 1 THEN 256
                    ELSE IF i % width = 2 THEN 65536 ELSE 16777216
    IN  [i \in 1..(width * Len(indices)) |->
            (indices[((i - 1) \div width) + 1] \div place(i - 1)) % 256]

\* "for bone_name in tri_group.bone_names" of _write_emd (exporter.py
\* 558-568): k is the number of names already handled.
RECURSIVE WriteBoneNames(_, _, _, _, _)
WriteBoneNames(data, bone_names, k, bone_table_pos, tri_start) ==
    IF k = Len(bone_names) THEN data
    ELSE Bind(IF bone_names[k + 1] # NULL_NAME
              THEN Poke(data, bone_table_pos + 4 * k, U32(Len(data) - tri_start))
                   \o bone_names[k + 1] \o <<0>>
              ELSE data,
              LAMBDA d : WriteBoneNames(d, bone_names, k + 1, bone_table_pos, tri_start))

\* One pass of "for tri_idx, tri_group in enumerate(sub.triangle_groups)"
\* (exporter.py 522-570).
WriteTriangleGroup(data, tri_ptr_position, tri_group, sub_off) ==
    LET tri_start == Len(data)
        face_count == Len(tri_group.indices)
        bones_count == Len(tri_group.bone_names)
        use_32 == face_count > 65535
    IN  Bind(_pad_data(Poke(data, tri_ptr_position, U32(Len(data) - sub_off))
                       \o U32(face_count) \o U32(bones_count)
                       \o U32(IF face_count > 0 THEN 16 ELSE 0) \o Zeros(4)
                       \o PackIndices(tri_group.indices, use_32), 4),
             LAMBDA d :
                _pad_data(
                    WriteBoneNames(
                        (IF bones_count > 0
                         THEN Poke(d, tri_start + 12, U32(Len(d) - tri_start))
                         ELSE d) \o Zeros(4 * bones_count),
                        tri_group.bone_names, 0, Len(d), tri_start), 4))

RECURSIVE WriteTriangleGroups(_, _, _, _, _)
WriteTriangleGroups(data, groups, k, tri_table, sub_off) ==
    IF k = Len(groups) THEN data
    ELSE Bind(WriteTriangleGroup(data, tri_table + 4 * k, groups[k + 1], sub_off),
              LAMBDA d : WriteTriangleGroups(d, groups, k + 1, tri_table, sub_off))

\* The submesh block of _write_emd (exporter.py 457-572) for a submesh that
\* holds the triangle groups: the 80-byte header, the name, the (empty)
\* sampler table, the triangle pointer table and the triangle groups.
WriteSubmesh(groups) ==
    Bind(_pad_data(Zeros(48) \o U32(0) \o U32(0) \o U32(0) \o Zeros(4) \o Zeros(4)
                   \o <<0>> \o <<0>> \o U16(Len(groups) % 65536) \o Zeros(4) \o Zeros(4)
                   \o <<0>>, 4),
         LAMBDA named :
    Bind(WriteTriangleGroups(
            Poke(Poke(Poke(named, 64, U32(80)), 72, U32(Len(named))), 76, U32(Len(named)))
                \o Zeros(4 * Len(groups)),
            groups, 0, Len(named), 0),
         LAMBDA d : Poke(d, 60, U32(Len(d)))))

\* The triangle group parse_emd decodes at tri_off (EMD.py 423-469).
ParseTriangleGroup(data, tri_off) ==
    LET face_count == Rd32(data, tri_off)
        bone_name_count == Rd32(data, tri_off + 4)
        face_table_rel == Rd32(data, tri_off + 8)
        bone_name_table_rel == Rd32(data, tri_off + 12)
        face_ptr == IF face_table_rel # 0 THEN tri_off + face_table_rel ELSE tri_off + 16
        is32 == face_count > 65535
        name_rel(bi) == Rd32(data, tri_off + bone_name_table_rel + 4 * bi)
    IN  [indices |-> [f \in 1..face_count |->
                         IF is32 THEN Rd32(data, face_ptr + 4 * (f - 1))
                         ELSE Rd16(data, face_ptr + 2 * (f - 1))],
         bone_names |-> IF bone_name_count > 0 /\ bone_name_table_rel # 0
                        THEN [b \in 1..bone_name_count |->
                                 IF name_rel(b - 1) # 0
                                 THEN read_cstring(data, tri_off + name_rel(b - 1))
                                 ELSE <<>>]
                        ELSE <<>>]

\* The triangle groups parse_emd decodes for the submesh at sub_off
\* (EMD.py 412-471).
ParseSubmeshTriangles(data, sub_off) ==
    LET triangle_count == Rd16(data, sub_off + 70)
        triangles_table_offset == sub_off + Rd32(data, sub_off + 76)
    IN  [t \in 1..triangle_count |->
            ParseTriangleGroup(data,
                sub_off + Rd32(data, triangles_table_offset + 4 * (t - 1)))]

TriGroupMenu == [indices : IndexMenu, bone_names : UNION {[1..n -> NameMenu] : n \in 0..2}]

\* _write_emd
WriteEmd ==
    /\ emd_stage = "tree"
    /\ emd_bytes' = WriteSubmesh(emd_tree)
    /\ emd_stage' = "written"
    /\ UNCHANGED <<emd_tree, emd_parsed>>

\* parse_emd on the written file
ParseEmd ==
    /\ emd_stage = "written"
    /\ emd_parsed' = ParseSubmeshTriangles(emd_bytes, 0)
    /\ emd_stage' = "parsed"
    /\ UNCHANGED <<emd_tree, emd_bytes>>

EmdInit ==
    /\ emd_tree \in UNION {[1..n -> TriGroupMenu] : n \in 0..MaxTriGroups}
    /\ emd_bytes = <<>>
    /\ emd_parsed = <<>>
    /\ emd_stage = "tree"

EmdIdle ==
    /\ emd_tree = <<>>
    /\ emd_bytes = <<>>
    /\ emd_parsed = <<>>
    /\ emd_stage = "idle"

(***************************************************************************)
(* Skeleton codecs: _build_skeleton_from_armature, the ESK writer          *)
(* (_build_esk_skeleton_bytes, export_esk) with parse_esk, and the EAN     *)
(* skeleton writer (_build_skeleton_bytes, placed by export_ean) with      *)
(* _EANParser._parse_skeleton.                                             *)
(*                                                                         *)
(* skel_arm is the armature: the object's name and its bones, each with a  *)
(* name and a parent (0: no parent, k: the k-th bone of the armature).     *)
(* Names are ASCII byte strings without NUL.  Every bone is at its rest    *)
(* position with an identity matrix: the transform tables are written in   *)
(* full, their values are not what the properties are about.               *)
(***************************************************************************)
ESK_SIGNATURE == 1263748387

\* Bound: the number of bones of the armature (the root comes on top).
MaxArmBones == 2

\* "A", "Bo", "c_3"
BoneNameMenu == {<<65>>, <<66, 111>>, <<99, 95, 51>>}

\* struct.unpack_from("<i", data, off)[0]
RdI32(data, off) ==
    data[off + 1] + 256 * data[off + 2] + 65536 * data[off + 3]
    + 16777216 * (IF data[off + 4] >= 128 THEN data[off + 4] - 256 ELSE data[off + 4])

\* struct.pack("<Q", n) for n below 2^31
U64(n) == U32(n) \o Zeros(4)

\* struct.pack("<4f", ...) of 0.0 and 1.0 values
F32Zero == <<0, 0, 0, 0>>

F32One == <<0, 0, 128, 63>>

RECURSIVE ConcatAll(_)
ConcatAll(ss) == IF ss = <<>> THEN <<>> ELSE Head(ss) \o ConcatAll(Tail(ss))

\* _bone_child_sibling_indices: the children of p are the bones whose
\* parent_index is p, in list order.
ChildrenOf(bones, p) == {i \in 0..(Len(bones) - 1) : bones[i + 1].parent_index = p}

\* A faulty variant of _bone_child_sibling_indices without the first loop
\* (the reset to -1): a link that is not assigned keeps its previous value.
LinksWithoutReset(bones) ==
    [i \in 1..Len(bones) |->
        [bones[i] EXCEPT
            !.child_index = IF ChildrenOf(bones, i - 1) # {}
                            THEN SetMin(ChildrenOf(bones, i - 1)) ELSE @,
            !.sibling_index =
                LET later == {c \in ChildrenOf(bones, bones[i].parent_index) : c > i - 1}
                IN  IF later # {} THEN SetMin(later) ELSE @]]

_bone_child_sibling_indices(bones) ==
    [i \in 1..Len(bones) |->
        [bones[i] EXCEPT
            !.child_index = IF ChildrenOf(bones, i - 1) # {}
                            THEN SetMin(ChildrenOf(bones, i - 1)) ELSE -1,
            !.sibling_index =
                LET later == {c \in ChildrenOf(bones, bones[i].parent_index) : c > i - 1}
                IN  IF later # {} THEN SetMin(later) ELSE -1]]

\* _build_skeleton_from_armature: esk.bones
_build_skeleton_from_armature(arm) ==
    _bone_child_sibling_indices(
        <<[name |-> arm.name, index |-> 0, parent_index |-> -1,
           child_index |-> -1, sibling_index |-> -1]>>
        \o [k \in 1..Len(arm.bones) |->
               [name |-> arm.bones[k].name, index |-> k,
                parent_index |-> arm.bones[k].parent,
                child_index |-> -1, sibling_index |-> -1]])

\* strings and name_offsets of both skeleton writers
SkeletonStrings(bones) == ConcatAll([i \in 1..Len(bones) |-> bones[i].name \o <<0>>])

NameOffset(bones, i) == Len(SkeletonStrings(SubSeq(bones, 1, i - 1)))

\* The header-independent tables both writers emit after the 36-byte
\* header: the index entries ("<hhhH"), the name offsets and the strings.
SkeletonTables(bones) ==
    ConcatAll([i \in 1..Len(bones) |->
                  I16(bones[i].parent_index) \o I16(bones[i].child_index)
                  \o I16(bones[i].sibling_index) \o U16(0)])
    \o ConcatAll([i \in 1..Len(bones) |->
                     U32(36 + 8 * Len(bones) + 4 * Len(bones) + NameOffset(bones, i))])
    \o SkeletonStrings(bones)

\* _pack_relative_transforms / the transform loop of _build_skeleton_bytes
RelativeTransforms(bones) ==
    ConcatAll([i \in 1..Len(bones) |->
                  F32Zero \o F32Zero \o F32Zero \o F32One
                  \o F32Zero \o F32Zero \o F32Zero \o F32One
                  \o F32One \o F32One \o F32One \o F32One])

\* _pack_absolute_transforms
AbsoluteTransforms(bones) ==
    ConcatAll([i \in 1..Len(bones) |->
                  F32One \o F32Zero \o F32Zero \o F32Zero
                  \o F32Zero \o F32One \o F32Zero \o F32Zero
                  \o F32Zero \o F32Zero \o F32One \o F32Zero
                  \o F32Zero \o F32Zero \o F32Zero \o F32One])

_build_esk_skeleton_bytes(bones, skeleton_flag, skeleton_id) ==
    Bind(_pad_data(I16(Len(bones)) \o I16(skeleton_flag)
                   \o U32(36) \o U32(36 + 8 * Len(bones))
                   \o U32(0) \o U32(0) \o U32(0) \o U32(0)
                   \o U64(skeleton_id)
                   \o SkeletonTables(bones), 16),
         LAMBDA d :
    Bind(_pad_data(Poke(d, 12, U32(Len(d))) \o RelativeTransforms(bones), 16),
         LAMBDA e : Poke(e, 16, U32(Len(e))) \o AbsoluteTransforms(bones)))

\* export_esk without a source template: the 32-byte file header and the
\* skeleton at offset 32.
export_esk(arm) ==
    U32(ESK_SIGNATURE) \o U16(65534) \o U16(28) \o U16(37568) \o U16(0) \o U32(0)
    \o U32(32) \o U32(0) \o U32(0) \o U32(0)
    \o _build_esk_skeleton_bytes(_build_skeleton_from_armature(arm), 1, 0)

\* _build_skeleton_bytes; unique_id is the value of secrets.randbits(64) or 1.
_build_skeleton_bytes(bones, unique_id) ==
    LET string_off == 36 + 8 * Len(bones) + 4 * Len(bones)
        pad == (4 - (Len(SkeletonStrings(bones)) % 4)) % 4
        skin_rel == string_off + Len(SkeletonStrings(bones)) + pad
    IN  I16(Len(bones)) \o U16(0) \o U32(36) \o U32(36 + 8 * Len(bones))
        \o U32(skin_rel) \o U32(0) \o U32(0) \o U32(skin_rel + 48 * Len(bones))
        \o U64(unique_id)
        \o SkeletonTables(bones) \o Zeros(pad) \o RelativeTransforms(bones)

\* export_ean up to the skeleton (exporter_char.py 653-662): the 32-byte
\* header with the skeleton offset at 20, then the skeleton bytes.
export_ean_skeleton(arm, unique_id, animation_count) ==
    Bind(<<35, 69, 65, 78, 254, 255, 32, 0>> \o U32(37505) \o Zeros(4)
         \o <<0>> \o <<4>> \o U16(animation_count) \o Zeros(12),
         LAMBDA out : Poke(out, 20, U32(Len(out)))
                      \o _build_skeleton_bytes(_build_skeleton_from_armature(arm), unique_id))

\* The bone loop shared by parse_esk and _parse_skeleton: the decoded
\* [name, index, parent_index, child_index, sibling_index] of each bone.
ParseBone(data, offs, bone_index_table_offset, name_table_offset, bone_index) ==
    [name |-> read_cstring(data, offs + Rd32(data, name_table_offset + 4 * bone_index)),
     index |-> bone_index,
     parent_index |-> RdI16(data, bone_index_table_offset + 8 * bone_index),
     child_index |-> RdI16(data, bone_index_table_offset + 8 * bone_index + 2),
     sibling_index |-> RdI16(data, bone_index_table_offset + 8 * bone_index + 4)]

\* The reads of the bone loop: struct.unpack_from raises struct.error for a
\* bone whose index entry, name pointer, relative transform ("<12f") or
\* absolute matrix ("<16f", when the file has that table) is not in the buffer.
BonesInBuf(data, bone_count, index_table, name_table, transforms, absolute_matrices) ==
    \A b \in 0..(bone_count - 1) :
        /\ InBuf(data, index_table + 8 * b, 6)
        /\ InBuf(data, name_table + 4 * b, 4)
        /\ InBuf(data, transforms + 48 * b, 48)
        /\ absolute_matrices # 0 => InBuf(data, absolute_matrices + 64 * b, 64)

parse_esk(data) ==
    IF ~InBuf(data, 0, 4) THEN [status |-> "struct.error", bones |-> <<>>]
    ELSE IF Rd32(data, 0) # ESK_SIGNATURE THEN [status |-> "ValueError", bones |-> <<>>]
    ELSE IF ~(InBuf(data, 8, 2) /\ InBuf(data, 16, 4))
         THEN [status |-> "struct.error", bones |-> <<>>]
    ELSE LET offs == Rd32(data, 16)
         IN  IF ~InBuf(data, offs, 20)
                \/ ~BonesInBuf(data, RdI16(data, offs), Rd32(data, offs + 4) + offs,
                               Rd32(data, offs + 8) + offs, Rd32(data, offs + 12) + offs,
                               IF Rd32(data, offs + 16) # 0
                               THEN Rd32(data, offs + 16) + offs ELSE 0)
             THEN [status |-> "struct.error", bones |-> <<>>]
             ELSE [status |-> "ok",
                   bones |-> [b \in 1..RdI16(data, offs) |->
                                 ParseBone(data, offs, Rd32(data, offs + 4) + offs,
                                           Rd32(data, offs + 8) + offs, b - 1)]]

\* _EANParser._parse_skeleton(offset)
_parse_skeleton(data, offset) ==
    IF offset <= 0 THEN [status |-> "ok", bones |-> <<>>]
    ELSE IF ~InBuf(data, offset, 2)
            \/ ~InBuf(data, offset + 4, 12)
            \/ ~BonesInBuf(data, RdI16(data, offset), RdI32(data, offset + 4) + offset,
                           RdI32(data, offset + 8) + offset,
                           RdI32(data, offset + 12) + offset, 0)
         THEN [status |-> "struct.error", bones |-> <<>>]
    ELSE [status |-> "ok",
          bones |-> [b \in 1..RdI16(data, offset) |->
                        ParseBone(data, offset, RdI32(data, offset + 4) + offset,
                                  RdI32(data, offset + 8) + offset, b - 1)]]

\* Parent links without a cycle: following them from any bone ends at a
\* bone without a parent.
RECURSIVE ReachesTop(_, _, _)
ReachesTop(arm_bones, k, fuel) ==
    \/ arm_bones[k].parent = 0
    \/ fuel > 0 /\ ReachesTop(arm_bones, arm_bones[k].parent, fuel - 1)

\* list(arm_obj.data.bones) of an armature with n bones: distinct names,
\* parents inside the armature.
ArmBoneLists(n) ==
    {bs \in [1..n -> [name : BoneNameMenu, parent : 0..n]] :
        /\ \A i, j \in 1..n : i # j => bs[i].name # bs[j].name
        /\ \A i \in 1..n : ReachesTop(bs, i, n)}

\* The armatures: up to MaxArmBones bones.
Armatures ==
    {[name |-> root, bones |-> bs] :
        root \in BoneNameMenu, bs \in UNION {ArmBoneLists(n) : n \in 0..MaxArmBones}}

SkelNone == [status |-> "none", bones |-> <<>>]

\* export_esk
ExportEsk ==
    /\ esk_file = <<>>
    /\ esk_file' = export_esk(skel_arm)
    /\ UNCHANGED <<skel_arm, esk_parsed, ean_file, ean_parsed>>

\* parse_esk on the exported file
ParseEsk ==
    /\ esk_file # <<>>
    /\ esk_parsed.status = "none"
    /\ esk_parsed' = parse_esk(esk_file)
    /\ UNCHANGED <<skel_arm, esk_file, ean_file, ean_parsed>>

\* export_ean (header and skeleton)
ExportEanSkeleton ==
    /\ ean_file = <<>>
    /\ \E unique_id \in {1, 258} : \E animation_count \in {1, 2} :
          ean_file' = export_ean_skeleton(skel_arm, unique_id, animation_count)
    /\ UNCHANGED <<skel_arm, esk_file, esk_parsed, ean_parsed>>

\* _EANParser.parse -> _parse_skeleton(skeleton_offset)
ParseEanSkeleton ==
    /\ ean_file # <<>>
    /\ ean_parsed.status = "none"
    /\ ean_parsed' = _parse_skeleton(ean_file, RdI32(ean_file, 20))
    /\ UNCHANGED <<skel_arm, esk_file, esk_parsed, ean_file>>

SkelInit ==
    /\ skel_arm \in Armatures
    /\ esk_file = <<>>
    /\ esk_parsed = SkelNone
    /\ ean_file = <<>>
    /\ ean_parsed = SkelNone

SkelIdle ==
    /\ skel_arm = [name |-> <<>>, bones |-> <<>>]
    /\ esk_file = <<>>
    /\ esk_parsed = SkelNone
    /\ ean_file = <<>>
    /\ ean_parsed = SkelNone

(***************************************************************************)
(* Decoders on files as found on disk.  dec_data is the content of a file, *)
(* dec_result what one decoder made of it.  Every decoder is applied to    *)
(* every file: well-formed files of the six formats, the same files with   *)
(* another magic or behind leading bytes, and files cut off at any length. *)
(* Tables nested below the top-level pointer tables are empty in these     *)
(* files; a decoder's value lists the non-null pointers of its tables.     *)
(***************************************************************************)
EMD_SIGNATURE == 1145914659

EMM_SIGNATURE == 1296909603

EMB_SIGNATURE == 1112360227

MaxEmbEntries == 2

\* A raised exception or a None return: no decoded structure.
Failed(kind) == [status |-> kind, value |-> <<>>]

Decoded(value) == [status |-> "ok", value |-> value]

\* The non-null pointers of a pointer table, in table order.
NonNull(ptrs) == SelectSeq(ptrs, LAMBDA p : p # 0)

(***************************************************************************)
(* parse_emd below the model table.  Of a decoded structure the model      *)
(* keeps the offset it was decoded at (at), its name, the offsets of its   *)
(* name, vertex, sampler and index data, and its children; of the vertices *)
(* it keeps their number.  A read outside the buffer raises struct.error   *)
(* (struct.unpack_from) or IndexError (data[i]); the first one ends        *)
(* parse_emd.                                                              *)
(***************************************************************************)
\* The bytes read_vertices reads for the channel bit of one vertex, from
\* the channel's first byte on.
ChannelExtent(flags, bit) ==
    LET is_comp == HasFlag(flags, VERTEX_COMPRESSED)
    IN  IF bit = VERTEX_POSITION THEN 12
        ELSE IF bit = VERTEX_NORMAL \/ bit = VERTEX_TANGENT THEN (IF is_comp THEN 6 ELSE 12)
        ELSE IF bit = VERTEX_TEXUV \/ bit = VERTEX_TEX2UV THEN (IF is_comp THEN 4 ELSE 8)
        ELSE IF bit = VERTEX_COLOR THEN 4
        ELSE (IF is_comp THEN 10 ELSE 16)

\* bytes_read when read_vertices comes to the channel bit.
ChannelStart(flags, bit) ==
    LET order == <<VERTEX_POSITION, VERTEX_NORMAL, VERTEX_TEXUV, VERTEX_TEX2UV,
                   VERTEX_TANGENT, VERTEX_COLOR, VERTEX_BLENDWEIGHT>>
        before == SelectSeq(order, LAMBDA b : IndexOf(b, order) < IndexOf(bit, order))
    IN  Len(ConcatAll([k \in 1..Len(before) |->
                    Zeros(IF before[k] = VERTEX_POSITION
                          THEN (IF HasFlag(flags, VERTEX_POSITION) THEN 12 ELSE 0)
                          ELSE ChannelRead(flags, before[k]))]))

\* Every read of the vertex at vertex_pointer is inside the buffer.
VertexInBuf(flags, data, vertex_pointer) ==
    \A bit \in {VERTEX_POSITION, VERTEX_NORMAL, VERTEX_TEXUV, VERTEX_TEX2UV,
                VERTEX_TANGENT, VERTEX_COLOR, VERTEX_BLENDWEIGHT} :
        HasFlag(flags, bit) =>
            InBuf(data, vertex_pointer + ChannelStart(flags, bit), ChannelExtent(flags, bit))

\* read_vertices(flags, data, offset, vertex_count, vertex_size) on a
\* buffer: the first vertex is read and its size tested, then the others
\* are read, the last one furthest into the buffer.
ReadVerticesAt(flags, data, offset, vertex_count, vertex_size) ==
    IF vertex_count = 0 THEN Decoded(0)
    ELSE IF ~VertexInBuf(flags, data, offset) THEN Failed("struct.error")
    ELSE IF BytesReadPerVertex(flags) # vertex_size THEN Failed("ValueError")
    ELSE IF ~VertexInBuf(flags, data, offset + (vertex_count - 1) * vertex_size)
         THEN Failed("struct.error")
    ELSE Decoded(vertex_count)

\* read_texture_sampler_defs(data, offset, count): the texture indices.
RECURSIVE read_texture_sampler_defs(_, _, _, _)
read_texture_sampler_defs(data, ptr, remaining, acc) ==
    IF remaining = 0 THEN Decoded(acc)
    ELSE IF ~InBuf(data, ptr, 4) THEN Failed("IndexError")
    ELSE IF ~InBuf(data, ptr + 4, 8) THEN Failed("struct.error")
    ELSE read_texture_sampler_defs(data, ptr + 12, remaining - 1,
                                   Append(acc, data[ptr + 2]))

\* The body of "for _t in range(triangle_count)" for the group at tri_off.
ParseGroupAt(data, tri_off) ==
    IF ~InBuf(data, tri_off, 16) THEN Failed("struct.error")
    ELSE LET face_count == Rd32(data, tri_off)
             bone_name_count == Rd32(data, tri_off + 4)
             face_table_rel == Rd32(data, tri_off + 8)
             bone_name_table_rel == Rd32(data, tri_off + 12)
             face_ptr == IF face_table_rel # 0 THEN tri_off + face_table_rel ELSE tri_off + 16
             width == IF face_count > 65535 THEN 4 ELSE 2
             named == bone_name_count > 0 /\ bone_name_table_rel # 0
         IN  IF face_count > 0 /\ ~InBuf(data, face_ptr + width * (face_count - 1), width)
             THEN Failed("struct.error")
             ELSE IF named /\ ~InBuf(data, tri_off + bone_name_table_rel
                                           + 4 * (bone_name_count - 1), 4)
             THEN Failed("struct.error")
             ELSE Bind(ParseTriangleGroup(data, tri_off), LAMBDA tri :
                  Decoded([at |-> tri_off,
                           indices |-> tri.indices,
                           face_at |-> IF face_count > 0 THEN face_ptr ELSE 0,
                           bone_names |-> tri.bone_names,
                           bone_name_at |->
                              IF named
                              THEN [b \in 1..bone_name_count |->
                                      IF Rd32(data, tri_off + bone_name_table_rel + 4 * (b - 1)) # 0
                                      THEN tri_off + Rd32(data, tri_off + bone_name_table_rel
                                                                + 4 * (b - 1))
                                      ELSE 0]
                              ELSE <<>>]))

RECURSIVE ParseGroups(_, _, _, _, _)
ParseGroups(data, sub_off, tri_ptr, remaining, acc) ==
    IF remaining = 0 THEN Decoded(acc)
    ELSE IF ~InBuf(data, tri_ptr, 4) THEN Failed("struct.error")
    ELSE Bind(ParseGroupAt(data, sub_off + Rd32(data, tri_ptr)), LAMBDA r :
              IF r.status # "ok" THEN Failed(r.status)
              ELSE ParseGroups(data, sub_off, tri_ptr + 4, remaining - 1,
                               Append(acc, r.value)))

\* The body of "for _s in range(submesh_count)" for the submesh at sub_off.
ParseSubmeshAt(data, sub_off) ==
    IF ~InBuf(data, sub_off + 48, 16) THEN Failed("struct.error")
    ELSE Bind(ReadVerticesAt(Rd32(data, sub_off + 48), data,
                             sub_off + Rd32(data, sub_off + 60),
                             Rd32(data, sub_off + 56), Rd32(data, sub_off + 52)),
              LAMBDA verts :
         IF verts.status # "ok" THEN Failed(verts.status)
         ELSE IF ~InBuf(data, sub_off + 64, 4) THEN Failed("struct.error")
         ELSE IF ~InBuf(data, sub_off + 69, 1) THEN Failed("IndexError")
         ELSE IF ~InBuf(data, sub_off + 72, 4) THEN Failed("struct.error")
         ELSE Bind(IF data[sub_off + 70] > 0 /\ Rd32(data, sub_off + 72) # 0
                   THEN read_texture_sampler_defs(data, sub_off + Rd32(data, sub_off + 72),
                                                  data[sub_off + 70], <<>>)
                   ELSE Decoded(<<>>),
                   LAMBDA samplers :
         IF samplers.status # "ok" THEN Failed(samplers.status)
         ELSE IF ~InBuf(data, sub_off + 76, 4) THEN Failed("struct.error")
         ELSE Bind(ParseGroups(data, sub_off, sub_off + Rd32(data, sub_off + 76),
                               Rd16(data, sub_off + 70), <<>>),
                   LAMBDA groups :
         IF groups.status # "ok" THEN Failed(groups.status)
         ELSE Decoded([at |-> sub_off,
                       name |-> IF Rd32(data, sub_off + 64) # 0
                                THEN read_cstring(data, sub_off + Rd32(data, sub_off + 64))
                                ELSE <<>>,
                       name_at |-> IF Rd32(data, sub_off + 64) # 0
                                   THEN sub_off + Rd32(data, sub_off + 64) ELSE 0,
                       vertex_flags |-> Rd32(data, sub_off + 48),
                       vertex_count |-> verts.value,
                       vertex_at |-> sub_off + Rd32(data, sub_off + 60),
                       samplers |-> samplers.value,
                       sampler_at |-> IF samplers.value # <<>>
                                      THEN sub_off + Rd32(data, sub_off + 72) ELSE 0,
                       triangle_groups |-> groups.value]))))

RECURSIVE ParseSubmeshes(_, _, _, _, _)
ParseSubmeshes(data, mesh_off, sub_ptr, remaining, acc) ==
    IF remaining = 0 THEN Decoded(acc)
    ELSE IF ~InBuf(data, sub_ptr, 4) THEN Failed("struct.error")
    ELSE Bind(ParseSubmeshAt(data, mesh_off + Rd32(data, sub_ptr)), LAMBDA r :
              IF r.status # "ok" THEN Failed(r.status)
              ELSE ParseSubmeshes(data, mesh_off, sub_ptr + 4, remaining - 1,
                                  Append(acc, r.value)))

\* The body of "for _m in range(mesh_count)" for the mesh at mesh_off.
ParseMeshAt(data, mesh_off) ==
    IF ~(InBuf(data, mesh_off + 48, 4) /\ InBuf(data, mesh_off + 54, 6))
    THEN Failed("struct.error")
    ELSE Bind(ParseSubmeshes(data, mesh_off, mesh_off + Rd32(data, mesh_off + 56),
                             Rd16(data, mesh_off + 54), <<>>),
              LAMBDA submeshes :
         IF submeshes.status # "ok" THEN Failed(submeshes.status)
         ELSE Decoded([at |-> mesh_off,
                       name |-> IF Rd32(data, mesh_off + 48) # 0
                                THEN read_cstring(data, mesh_off + Rd32(data, mesh_off + 48))
                                ELSE <<>>,
                       name_at |-> IF Rd32(data, mesh_off + 48) # 0
                                   THEN mesh_off + Rd32(data, mesh_off + 48) ELSE 0,
                       submeshes |-> submeshes.value]))

RECURSIVE ParseMeshes(_, _, _, _, _)
ParseMeshes(data, model_off, mesh_ptr, remaining, acc) ==
    IF remaining = 0 THEN Decoded(acc)
    ELSE IF ~InBuf(data, mesh_ptr, 4) THEN Failed("struct.error")
    ELSE Bind(ParseMeshAt(data, model_off + Rd32(data, mesh_ptr)), LAMBDA r :
              IF r.status # "ok" THEN Failed(r.status)
              ELSE ParseMeshes(data, model_off, mesh_ptr + 4, remaining - 1,
                               Append(acc, r.value)))

\* The body of "if model_off_rel != 0" for the model at model_off.
ParseModelAt(data, model_off, name_off) ==
    IF ~InBuf(data, model_off + 2, 6) THEN Failed("struct.error")
    ELSE Bind(ParseMeshes(data, model_off, model_off + Rd32(data, model_off + 4),
                          Rd16(data, model_off + 2), <<>>),
              LAMBDA meshes :
         IF meshes.status # "ok" THEN Failed(meshes.status)
         ELSE Decoded([at |-> model_off,
                       name |-> IF name_off # 0 THEN read_cstring(data, name_off) ELSE <<>>,
                       name_at |-> name_off,
                       meshes |-> meshes.value]))

\* "for _ in range(model_table_count)": a zero entry of the model table is
\* passed over.
RECURSIVE ParseModels(_, _, _, _, _)
ParseModels(data, model_ptr, name_ptr, remaining, acc) ==
    IF remaining = 0 THEN Decoded(acc)
    ELSE IF ~(InBuf(data, model_ptr, 4) /\ InBuf(data, name_ptr, 4))
         THEN Failed("struct.error")
    ELSE IF Rd32(data, model_ptr) = 0
         THEN ParseModels(data, model_ptr + 4, name_ptr + 4, remaining - 1, acc)
    ELSE Bind(ParseModelAt(data, Rd32(data, model_ptr), Rd32(data, name_ptr)), LAMBDA r :
              IF r.status # "ok" THEN Failed(r.status)
              ELSE ParseModels(data, model_ptr + 4, name_ptr + 4, remaining - 1,
                               Append(acc, r.value)))

\* parse_emd(path): magic, header, then the models of the model table.
parse_emd(data) ==
    IF ~InBuf(data, 0, 4) THEN Failed("struct.error")
    ELSE IF Rd32(data, 0) # EMD_SIGNATURE THEN Failed("ValueError")
    ELSE IF ~(InBuf(data, 8, 4) /\ InBuf(data, 18, 10)) THEN Failed("struct.error")
    ELSE Bind(ParseModels(data, Rd32(data, 20), Rd32(data, 24), Rd16(data, 18), <<>>),
              LAMBDA models :
         IF models.status # "ok" THEN Failed(models.status)
         ELSE Decoded([version |-> Rd32(data, 8), models |-> models.value]))

\* parse_emm: length and magic, then the material pointer table.
parse_emm(data) ==
    IF Len(data) < 16 \/ Rd32(data, 0) # EMM_SIGNATURE THEN Failed("ValueError")
    ELSE LET header_size == RdI16(data, 12)
             table_offset == Rd32(data, 12)
         IN  IF ~InBuf(data, table_offset, 4) THEN Failed("struct.error")
             ELSE IF \E i \in 0..(Rd32(data, table_offset) - 1) :
                         ~InBuf(data, table_offset + 4 + 4 * i, 4)
                  THEN Failed("struct.error")
             ELSE Bind(NonNull([i \in 1..Rd32(data, table_offset) |->
                                   Rd32(data, table_offset + 4 * i)]),
                       LAMBDA entries :
                           Decoded([materials |-> [k \in 1..Len(entries) |->
                                                      entries[k] + header_size]]))

\* raw.find(sig): the lowest offset at which sig occurs, or -1.
Find(raw, sig) ==
    IF \E p \in 0..(Len(raw) - Len(sig)) : SubSeq(raw, p + 1, p + Len(sig)) = sig
    THEN CHOOSE p \in 0..(Len(raw) - Len(sig)) :
            /\ SubSeq(raw, p + 1, p + Len(sig)) = sig
            /\ \A q \in 0..(p - 1) : SubSeq(raw, q + 1, q + Len(sig)) # sig
    ELSE -1

\* view[a : b] of Python: cut to the buffer, never an error.
Slice(view, a, b) == SubSeq(view, Min2(a, Len(view)) + 1, Min2(b, Len(view)))

\* f"DATA{i:03d}.dds" for i below 1000
SyntheticName(i) ==
    <<68, 65, 84, 65, 48 + ((i \div 100) % 10), 48 + ((i \div 10) % 10), 48 + (i % 10),
      46, 100, 100, 115>>

\* The entry table loop of read_emb: it stops at the first entry that does
\* not fit into the buffer.
EmbEntriesRead(view, total_entries, contents_offset) ==
    IF \E i \in 0..(total_entries - 1) : contents_offset + 8 * i + 8 > Len(view)
    THEN CHOOSE i \in 0..(total_entries - 1) :
            /\ contents_offset + 8 * i + 8 > Len(view)
            /\ \A j \in 0..(i - 1) : contents_offset + 8 * j + 8 <= Len(view)
    ELSE total_entries

\* The name table loop of read_emb: the pointers whose slot fits into the
\* buffer, in table order.
EmbNameOffsets(view, total_entries, file_name_table_offset) ==
    IF file_name_table_offset = 0 THEN <<>>
    ELSE LET fits == {i \in 0..(total_entries - 1) :
                         file_name_table_offset + 4 * i + 4 <= Len(view)}
         IN  [k \in 1..Cardinality(fits) |->
                 Rd32(view, file_name_table_offset
                            + 4 * (CHOOSE i \in fits :
                                      Cardinality({j \in fits : j < i}) = k - 1))]

\* read_emb from the header at the signature to the returned EMBFile.
EmbDecode(view) ==
    LET total_entries == Rd32(view, 12)
        contents_offset == Rd32(view, 24)
        file_name_table_offset == Rd32(view, 28)
    IN  Bind(EmbNameOffsets(view, total_entries, file_name_table_offset),
             LAMBDA name_offsets :
        Decoded([i_08 |-> Rd16(view, 8),
                 i_10 |-> Rd16(view, 10),
                 use_file_names |-> file_name_table_offset # 0,
                 entries |->
                    [k \in 1..EmbEntriesRead(view, total_entries, contents_offset) |->
                        [index |-> k - 1,
                         name |-> IF file_name_table_offset # 0 /\ k - 1 < Len(name_offsets)
                                  THEN read_cstring(view, name_offsets[k])
                                  ELSE SyntheticName(k - 1),
                         data |-> Slice(view,
                                        Rd32(view, contents_offset + 8 * (k - 1))
                                        + contents_offset + 8 * (k - 1),
                                        Rd32(view, contents_offset + 8 * (k - 1))
                                        + contents_offset + 8 * (k - 1)
                                        + Rd32(view, contents_offset + 8 * (k - 1) + 4))]]]))

\* read_emb on the content of an existing file
read_emb(raw) ==
    IF Len(raw) < 32 THEN Failed("None")
    ELSE Bind(Find(raw, U32(EMB_SIGNATURE)),
              LAMBDA sig_pos :
                  IF sig_pos = -1 \/ sig_pos + 32 > Len(raw) THEN Failed("None")
                  ELSE EmbDecode(SubSeq(raw, sig_pos + 1, Len(raw))))

\* read_ean_bytes: no magic test; header, skeleton, animation pointer tables.
read_ean_bytes(data) ==
    IF ~(InBuf(data, 18, 14) /\ InBuf(data, 8, 4)) THEN Failed("struct.error")
    ELSE LET animation_count == Rd16(data, 18)
             animation_table_offset == RdI32(data, 24)
             animation_names_offset == RdI32(data, 28)
         IN  Bind(_parse_skeleton(data, RdI32(data, 20)),
                  LAMBDA skeleton :
             IF skeleton.status # "ok" THEN Failed(skeleton.status)
             ELSE IF \E i \in 0..(animation_count - 1) :
                         \/ ~InBuf(data, animation_table_offset + 4 * i, 4)
                         \/ ~InBuf(data, animation_names_offset + 4 * i, 4)
                  THEN Failed("struct.error")
             ELSE Decoded([is_camera |-> data[17] # 0,
                           i_08 |-> RdI32(data, 8),
                           i_17 |-> data[18],
                           skeleton |-> skeleton.bones,
                           animations |-> NonNull([i \in 1..animation_count |->
                               RdI32(data, animation_table_offset + 4 * (i - 1))])]))

(***************************************************************************)
(* BCS part sets: _parse_part_sets, _parse_part, _parse_physics_parts.     *)
(* An outcome is Failed(kind) or Decoded(value); of a part the model keeps *)
(* its type, its two hide-flag fields as read ("<i") and its physics       *)
(* parts.                                                                  *)
(***************************************************************************)
\* struct.pack("<i", n) for -2^31 < n < 2^31
I32(n) == IF n >= 0 THEN U32(n) ELSE [i \in 1..4 |-> 255 - U32(-n - 1)[i]]

\* The status of the first step that failed, "ok" when none did.
FirstFailure(statuses) ==
    IF \E i \in 1..Len(statuses) : statuses[i] # "ok"
    THEN statuses[CHOOSE i \in 1..Len(statuses) :
                     statuses[i] # "ok" /\ \A j \in 1..(i - 1) : statuses[j] = "ok"]
    ELSE "ok"

\* One pass of the loop of _parse_physics_parts on the 72-byte record at
\* offset: "ok" or the exception it raises.
PhysicsPartStatus(data, offset) ==
    IF ~InBuf(data, offset + 28, 8) THEN "struct.error"
    ELSE IF RdI32(data, offset + 28) > 512 \/ RdI32(data, offset + 32) > 512
         THEN "ValueError"
    ELSE IF ~(InBuf(data, offset, 6) /\ InBuf(data, offset + 24, 4)
              /\ InBuf(data, offset + 40, 24))
         THEN "struct.error"
    ELSE "ok"

_parse_physics_parts(data, offset, count) ==
    IF count <= 0 \/ offset = 0 THEN Decoded(<<>>)
    ELSE Bind(FirstFailure([i \in 1..count |-> PhysicsPartStatus(data, offset + 72 * (i - 1))]),
              LAMBDA failure :
                  IF failure # "ok" THEN Failed(failure)
                  ELSE Decoded([i \in 1..count |->
                          [model1 |-> RdI16(data, offset + 72 * (i - 1)),
                           hide_flags |-> RdI32(data, offset + 72 * (i - 1) + 28),
                           hide_mat_flags |-> RdI32(data, offset + 72 * (i - 1) + 32)]]))

\* The reads of _parse_color_selectors and _parse_unk3: count records of
\* size bytes from offset on.
RecordsStatus(data, offset, count, size) ==
    IF count <= 0 \/ offset = 0 \/ \A i \in 0..(count - 1) : InBuf(data, offset + size * i, size)
    THEN "ok" ELSE "struct.error"

\* _parse_part for a non-null relative_offset, the part at offset =
\* part_base + relative_offset, from the hide-flag test to the return.
PartAt(data, offset, part_type, xv2) ==
    IF ~InBuf(data, offset + 28, 8) THEN Failed("struct.error")
    ELSE IF RdI32(data, offset + 28) > 1023 \/ RdI32(data, offset + 32) > 1023
         THEN Failed("ValueError")
    ELSE IF ~InBuf(data, offset, 76) THEN Failed("struct.error")
    ELSE IF Rd16(data, offset + 74) > 0 /\ ~InBuf(data, offset + 76, 4)
         THEN Failed("struct.error")
    ELSE IF RecordsStatus(data, IF Rd16(data, offset + 18) > 0
                                THEN RdI32(data, offset + 20) + offset ELSE 0,
                          Rd16(data, offset + 18), 4) # "ok"
         THEN Failed("struct.error")
    ELSE Bind(_parse_physics_parts(data, IF Rd16(data, offset + 74) > 0
                                         THEN RdI32(data, offset + 76) + offset ELSE 0,
                                   Rd16(data, offset + 74)),
              LAMBDA physics :
        IF physics.status # "ok" THEN physics
        ELSE IF xv2 /\ ~InBuf(data, offset + 82, 2) THEN Failed("struct.error")
        ELSE IF xv2 /\ Rd16(data, offset + 82) > 0 /\ ~InBuf(data, offset + 84, 4)
             THEN Failed("struct.error")
        ELSE IF xv2 /\ RecordsStatus(data, IF Rd16(data, offset + 82) > 0
                                           THEN RdI32(data, offset + 84) + offset ELSE 0,
                                     Rd16(data, offset + 82), 12) # "ok"
             THEN Failed("struct.error")
        ELSE Decoded([part_type |-> part_type,
                      model |-> RdI16(data, offset),
                      hide_flags |-> RdI32(data, offset + 28),
                      hide_mat_flags |-> RdI32(data, offset + 32),
                      physics_parts |-> physics.value]))

\* _parse_part: None (status "absent") for a null relative offset.
_parse_part(data, relative_offset, part_base, part_type, xv2) ==
    IF relative_offset = 0 THEN [status |-> "absent", value |-> <<>>]
    ELSE PartAt(data, part_base + relative_offset, part_type, xv2)

\* A faulty variant of PartCountOk that only rejects a part count above 10.
PartCountAtMost(part_count) == part_count <= 10

\* The sanity test of _parse_part_sets: "if part_count != 10: raise".
PartCountOk(part_count) == part_count = 10

\* The body of the loop of _parse_part_sets for a non-null partset_ptr:
\* the part count test, then the ten slots of _PART_ORDER.
PartSetAt(data, partset_ptr, idx, xv2) ==
    IF ~InBuf(data, partset_ptr + 20, 4) THEN Failed("struct.error")
    ELSE IF ~PartCountOk(RdI32(data, partset_ptr + 20)) THEN Failed("ValueError")
    ELSE IF ~InBuf(data, partset_ptr + 24, 4) THEN Failed("struct.error")
    ELSE Bind([i \in 1..10 |->
                  IF ~InBuf(data, partset_ptr + RdI32(data, partset_ptr + 24) + 4 * (i - 1), 4)
                  THEN Failed("struct.error")
                  ELSE _parse_part(data,
                          RdI32(data, partset_ptr + RdI32(data, partset_ptr + 24) + 4 * (i - 1)),
                          partset_ptr, i - 1, xv2)],
              LAMBDA parts :
        Bind(FirstFailure([i \in 1..10 |-> IF parts[i].status = "absent" THEN "ok"
                                           ELSE parts[i].status]),
             LAMBDA failure :
                 IF failure # "ok" THEN Failed(failure)
                 ELSE Decoded([id |-> idx,
                               parts |-> [k \in 1..Len(SelectSeq(parts, LAMBDA p : p.status = "ok")) |->
                                   SelectSeq(parts, LAMBDA p : p.status = "ok")[k].value]])))

\* _parse_part_sets(bcs, table_offset, count): bcs.part_sets or the
\* exception of the first entry that fails.
_parse_part_sets(data, table_offset, count, xv2) ==
    Bind([idx \in 1..count |->
             IF ~InBuf(data, table_offset + 4 * (idx - 1), 4) THEN Failed("struct.error")
             ELSE IF RdI32(data, table_offset + 4 * (idx - 1)) = 0
                  THEN [status |-> "absent", value |-> <<>>]
             ELSE PartSetAt(data, RdI32(data, table_offset + 4 * (idx - 1)), idx - 1, xv2)],
         LAMBDA sets :
        Bind(FirstFailure([i \in 1..count |-> IF sets[i].status = "absent" THEN "ok"
                                              ELSE sets[i].status]),
             LAMBDA failure :
                 IF failure # "ok" THEN Failed(failure)
                 ELSE Decoded([k \in 1..Len(SelectSeq(sets, LAMBDA p : p.status = "ok")) |->
                         SelectSeq(sets, LAMBDA p : p.status = "ok")[k].value])))

\* _BCSParser._read_version: the i16 at offset 6 selects the schema.
_read_version(data) ==
    IF RdI16(data, 6) = 72 THEN "XV1"
    ELSE IF RdI16(data, 6) \in {0, 76} THEN "XV2"
    ELSE "ValueError"

\* The pointer tables of _parse_part_sets, _parse_part_colors, _parse_bodies
PointerTable(data, table_offset, count) ==
    NonNull([i \in 1..count |-> RdI32(data, table_offset + 4 * (i - 1))])

PointerTableInBuf(data, table_offset, count) ==
    \A i \in 0..(count - 1) : InBuf(data, table_offset + 4 * i, 4)

\* read_bcs_bytes: no magic test; the version field, the header of the
\* selected schema, the part sets, the pointer tables of the part colors
\* and the bodies, and the skeleton pointers.
read_bcs_bytes(data) ==
    IF ~InBuf(data, 6, 2) THEN Failed("struct.error")
    ELSE IF _read_version(data) = "ValueError" THEN Failed("ValueError")
    ELSE LET xv1 == _read_version(data) = "XV1"
             hdr == IF xv1 THEN 20 ELSE 24
         IN  IF ~(InBuf(data, 12, 6) /\ InBuf(data, hdr, IF xv1 THEN 12 ELSE 20)
                  /\ InBuf(data, IF xv1 THEN 36 ELSE 48, 28))
             THEN Failed("struct.error")
             ELSE Bind(_parse_part_sets(data, RdI32(data, hdr), Rd16(data, 12), ~xv1),
                       LAMBDA part_sets :
                 IF part_sets.status # "ok" THEN part_sets
                 ELSE IF ~(/\ PointerTableInBuf(data, RdI32(data, hdr + 4), Rd16(data, 14))
                           /\ PointerTableInBuf(data, RdI32(data, hdr + 8), Rd16(data, 16))
                           /\ ~xv1 /\ RdI32(data, 40) # 0 => InBuf(data, RdI32(data, 40), 4)
                           /\ ~xv1 /\ RdI32(data, 36) # 0 => InBuf(data, RdI32(data, 36), 4))
                      THEN Failed("struct.error")
                 ELSE Decoded([version |-> _read_version(data),
                               race |-> data[(IF xv1 THEN 32 ELSE 44) + 1],
                               gender |-> data[(IF xv1 THEN 33 ELSE 45) + 1],
                               part_sets |-> part_sets.value,
                               part_colors |->
                                   PointerTable(data, RdI32(data, hdr + 4), Rd16(data, 14)),
                               bodies |->
                                   PointerTable(data, RdI32(data, hdr + 8), Rd16(data, 16)),
                               skeleton1 |-> IF xv1 THEN 64
                                             ELSE IF RdI32(data, 40) # 0
                                                  THEN RdI32(data, RdI32(data, 40)) ELSE 0,
                               skeleton2 |-> IF ~xv1 /\ RdI32(data, 36) # 0
                                             THEN RdI32(data, RdI32(data, 36)) ELSE 0]))

\* _write_emd for an EMD_File without models: the 28-byte header and two
\* empty tables.
EmptyEmdFile ==
    U32(EMD_SIGNATURE) \o U16(65534) \o U16(28) \o U32(513) \o Zeros(6)
    \o U16(0) \o U32(28) \o U32(28)

\* A material file without materials, as parse_emm reads it: the table
\* offset at 12, the count at the table.
EmptyEmmFile ==
    U32(EMM_SIGNATURE) \o U16(65534) \o U16(16) \o U32(0) \o U32(16) \o U32(0)

\* "#BCS" and "#EAN"
BCS_MAGIC == <<35, 66, 67, 83>>

EAN_MAGIC == <<35, 69, 65, 78>>

\* A current-schema character file with empty tables and no skeleton, as
\* _BCSParser.parse reads it; flag is the i16 at offset 6.
EmptyBcsFile(flag) == BCS_MAGIC \o U16(65534) \o U16(flag) \o Zeros(68)

RECURSIVE SumSizes(_, _)
SumSizes(sizes, n) == IF n = 0 THEN 0 ELSE sizes[n] + SumSizes(sizes, n - 1)

\* A texture container as read_emb reads it: header, entry table at 32
\* (pointer relative to the entry, size), name table when the file carries
\* names, NUL-terminated names, blobs.
EmbFile(entries, use_file_names) ==
    LET n == Len(entries)
        name_table == 32 + 8 * n
        strings == IF use_file_names THEN name_table + 4 * n ELSE name_table
        name_sizes == [i \in 1..n |-> Len(entries[i].name) + 1]
        blobs == IF use_file_names THEN strings + SumSizes(name_sizes, n) ELSE strings
        blob_sizes == [i \in 1..n |-> Len(entries[i].data)]
    IN  U32(EMB_SIGNATURE) \o U16(65534) \o U16(32) \o U16(1) \o U16(0) \o U32(n)
        \o Zeros(8) \o U32(32) \o U32(IF use_file_names THEN name_table ELSE 0)
        \o ConcatAll([i \in 1..n |->
                U32(blobs + SumSizes(blob_sizes, i - 1) - (32 + 8 * (i - 1)))
                \o U32(blob_sizes[i])])
        \o (IF use_file_names
            THEN ConcatAll([i \in 1..n |-> U32(strings + SumSizes(name_sizes, i - 1))])
                 \o ConcatAll([i \in 1..n |-> entries[i].name \o <<0>>])
            ELSE <<>>)
        \o ConcatAll([i \in 1..n |-> entries[i].data])

\* Entries "a" with blob "XY" and "bc" with blob "Z"
EmbEntryMenu == {[name |-> <<97>>, data |-> <<88, 89>>], [name |-> <<98, 99>>, data |-> <<90>>]}

EmbEntryLists == UNION {[1..n -> EmbEntryMenu] : n \in 0..MaxEmbEntries}

EmbFiles == {EmbFile(es, nm) : es \in EmbEntryLists, nm \in BOOLEAN}

\* The armatures behind the skeleton files: the root alone or with one bone.
DecArmatures == {a \in Armatures : a.name = <<65>> /\ Len(a.bones) <= 1}

WellFormedFiles ==
    EmbFiles \cup {EmptyEmdFile, EmptyEmmFile} \cup {EmptyBcsFile(0), EmptyBcsFile(76)}
    \cup {export_esk(a) : a \in DecArmatures}
    \cup {export_ean_skeleton(a, 1, 0) : a \in DecArmatures}

\* ESK and EAN files of a root and one bone in which the parent_index
\* field of one bone's index entry (at 68 + 8 * bone: the skeleton starts at
\* 32, its index table 36 bytes further) holds another value.
ParentPatchedFiles ==
    {Poke(f, 68 + 8 * b, I16(parent)) :
        f \in {export_esk(a) : a \in {d \in DecArmatures : Len(d.bones) = 1}}
               \cup {export_ean_skeleton(a, 1, 0) : a \in {d \in DecArmatures : Len(d.bones) = 1}},
        b \in 0..1, parent \in -1..2}

\* The same files under other first four bytes, behind four leading bytes
\* ("JUNK"), and cut off at every length; and the files with other parents.
DecInputs ==
    WellFormedFiles
    \cup ParentPatchedFiles
    \cup {Poke(f, 0, m) : f \in WellFormedFiles, m \in {Zeros(4), U32(EMD_SIGNATURE)}}
    \cup {<<74, 85, 78, 75>> \o f : f \in WellFormedFiles}
    \cup UNION {{SubSeq(f, 1, k) : k \in 0..Len(f)} : f \in WellFormedFiles}

DecNone == [decoder |-> "none", status |-> "none", value |-> <<>>]

Ran(decoder, outcome) ==
    [decoder |-> decoder, status |-> outcome.status, value |-> outcome.value]

\* parse_emd(path)
ParseEmdFile ==
    /\ dec_result = DecNone
    /\ dec_result' = Ran("parse_emd", parse_emd(dec_data))
    /\ UNCHANGED dec_data

\* parse_esk(path)
ParseEskFile ==
    /\ dec_result = DecNone
    /\ \E r \in {parse_esk(dec_data)} :
          dec_result' = [decoder |-> "parse_esk", status |-> r.status, value |-> r.bones]
    /\ UNCHANGED dec_data

\* parse_emm(path)
ParseEmmFile ==
    /\ dec_result = DecNone
    /\ dec_result' = Ran("parse_emm", parse_emm(dec_data))
    /\ UNCHANGED dec_data

\* read_emb(path)
ReadEmbFile ==
    /\ dec_result = DecNone
    /\ dec_result' = Ran("read_emb", read_emb(dec_data))
    /\ UNCHANGED dec_data

\* read_ean(path) -> read_ean_bytes
ReadEanFile ==
    /\ dec_result = DecNone
    /\ dec_result' = Ran("read_ean_bytes", read_ean_bytes(dec_data))
    /\ UNCHANGED dec_data

\* read_bcs(path) -> read_bcs_bytes
ReadBcsFile ==
    /\ dec_result = DecNone
    /\ dec_result' = Ran("read_bcs_bytes", read_bcs_bytes(dec_data))
    /\ UNCHANGED dec_data

DecInit ==
    /\ dec_data \in DecInputs
    /\ dec_result = DecNone

DecIdle ==
    /\ dec_data = <<>>
    /\ dec_result = DecNone

(***************************************************************************)
(* EAN importer: sampling a component at a frame (_interp_component).      *)
(* Keyframe values are integers; sampled values are rationals <<n, d>>     *)
(* with d > 0 in lowest terms, so that an interpolated value can be told   *)
(* from a stored one.                                                      *)
(***************************************************************************)
MaxKeyFrame == 2

MaxKeys == 3

Abs(n) == IF n < 0 THEN -n ELSE n

\* n/d for d > 0, in lowest terms
Rat(n, d) == <<n \div Gcd(Abs(n), d), d \div Gcd(Abs(n), d)>>

\* (keyframe.x, keyframe.y, keyframe.z, keyframe.w)
KeyframeValues(k) == <<Rat(k.x, 1), Rat(k.y, 1), Rat(k.z, 1), Rat(k.w, 1)>>

\* A faulty variant of SortedKeyframes: keyframes of the same frame come
\* out in reverse stored order (an unstable sort).
SortedKeyframesUnstable(keyframes) ==
    [k \in 1..Len(keyframes) |->
        keyframes[CHOOSE i \in 1..Len(keyframes) :
            Cardinality({j \in 1..Len(keyframes) :
                \/ keyframes[j].frame_index < keyframes[i].frame_index
                \/ keyframes[j].frame_index = keyframes[i].frame_index /\ j > i}) = k - 1]]

\* sorted(comp.keyframes, key=lambda k: k.frame_index): ascending frames,
\* keyframes of the same frame in stored order (the sort is stable).
SortedKeyframes(keyframes) ==
    [k \in 1..Len(keyframes) |->
        keyframes[CHOOSE i \in 1..Len(keyframes) :
            Cardinality({j \in 1..Len(keyframes) :
                \/ keyframes[j].frame_index < keyframes[i].frame_index
                \/ keyframes[j].frame_index = keyframes[i].frame_index /\ j < i}) = k - 1]]

\* The loop over the sorted keyframes from position i on: it returns at a
\* keyframe of the sampled frame, remembers the last one before the frame
\* and stops at the first one after it.  prev and nxt are positions, 0 for
\* None.
RECURSIVE ScanKeyframes(_, _, _, _)
ScanKeyframes(keyframes, i, frame, prev) ==
    IF i > Len(keyframes) THEN [hit |-> 0, prev |-> prev, nxt |-> 0]
    ELSE IF keyframes[i].frame_index = frame THEN [hit |-> i, prev |-> prev, nxt |-> 0]
    ELSE IF keyframes[i].frame_index > frame THEN [hit |-> 0, prev |-> prev, nxt |-> i]
    ELSE ScanKeyframes(keyframes, i + 1, frame, i)

\* A faulty variant of Lerp: the factor taken with an integer division.
LerpFloorDiv(p, n, num, den) ==
    Rat(p[1] * n[2] + (n[1] * p[2] - p[1] * n[2]) * (num \div den), p[2] * n[2])

\* prev_vals[i] + (next_vals[i] - prev_vals[i]) * factor with
\* factor = (frame - prev_frame) / (next_frame - prev_frame); the values are
\* rationals p/q and n/m, the result is exact.
Lerp(p, n, num, den) ==
    Rat(p[1] * n[2] * den + (n[1] * p[2] - p[1] * n[2]) * num, p[2] * n[2] * den)

\* _interp_component(comp, frame, default_vals); comp is a list of
\* keyframes, <<>> for a component that is None or has no keyframes.
_interp_component(comp, frame, default_vals) ==
    IF comp = <<>> THEN default_vals
    ELSE \* keyframes, then the loop's outcome, bound once each
         Bind(SortedKeyframes(comp), LAMBDA keyframes :
         Bind(ScanKeyframes(keyframes, 1, frame, 0), LAMBDA s :
            IF s.hit # 0 THEN KeyframeValues(keyframes[s.hit])
            ELSE LET prev_vals == IF s.prev = 0 THEN default_vals
                                  ELSE KeyframeValues(keyframes[s.prev])
                     prev_frame == IF s.prev = 0 THEN frame - 1
                                   ELSE keyframes[s.prev].frame_index
                     next_vals == IF s.nxt = 0 THEN default_vals
                                  ELSE KeyframeValues(keyframes[s.nxt])
                     next_frame == IF s.nxt = 0 THEN frame + 1
                                   ELSE keyframes[s.nxt].frame_index
                 IN  IF next_frame = prev_frame THEN prev_vals
                     ELSE [c \in 1..4 |-> Lerp(prev_vals[c], next_vals[c],
                                               frame - prev_frame,
                                               next_frame - prev_frame)]))

\* Stored values (x, y, z, w): a translation and a tilted rotation.
ValueMenu == {<<1, 2, 3, 1>>, <<0, -4, 0, 8>>}

\* Frame indices of the stored keyframes: neighbouring frames and two
\* frames far apart.
KeyFrames == (0..MaxKeyFrame) \cup {5, 20}

\* The frames sampled: every frame around the neighbouring keyframes and
\* one between the far ones.
SampleFrames == (0..(MaxKeyFrame + 1)) \cup {12}

KeyframeMenu ==
    {[frame_index |-> f, x |-> v[1], y |-> v[2], z |-> v[3], w |-> v[4]] :
        f \in KeyFrames, v \in ValueMenu}

\* comp.keyframes as _parse_keyframes leaves them: in file order, any frame
\* index at any position.
ComponentMenu == UNION {[1..n -> KeyframeMenu] : n \in 0..MaxKeys}

\* default_pos / default_rot / default_scale of the importer
DefaultMenu == {<<Rat(0, 1), Rat(0, 1), Rat(0, 1), Rat(1, 1)>>,
                <<Rat(1, 1), Rat(1, 1), Rat(1, 1), Rat(1, 1)>>}

InterpNone == [frame |-> -1, vals |-> <<>>]

\* One call of _interp_component from the frame loop of the importer.
SampleComponent ==
    /\ ic_out = InterpNone
    /\ \E frame \in SampleFrames :
          ic_out' = [frame |-> frame,
                     vals |-> _interp_component(ic_comp, frame, ic_default)]
    /\ UNCHANGED <<ic_comp, ic_default>>

InterpInit ==
    /\ ic_comp \in ComponentMenu
    /\ ic_default \in DefaultMenu
    /\ ic_out = InterpNone

InterpIdle ==
    /\ ic_comp = <<>>
    /\ ic_default = <<>>
    /\ ic_out = InterpNone

(***************************************************************************)
(* Character files with part sets, read by read_bcs_bytes.  bcs_doc is the *)
(* part-set table of the file on disk, BcsFile(bcs_doc) its bytes in the   *)
(* layout the parser walks: header (current schema), part-set pointer      *)
(* table, then per part set its header, its ten part slots, its parts and  *)
(* their physics parts.                                                    *)
(***************************************************************************)
MaxPartSets == 2

\* A 72-byte physics part record
PhysicsPartBytes(ph) ==
    Zeros(28) \o I32(ph.hide_flags) \o I32(ph.hide_mat_flags) \o Zeros(36)

\* An 88-byte part record followed by its physics parts
PartBytes(part) ==
    U16(1) \o Zeros(26) \o I32(part.hide_flags) \o I32(part.hide_mat_flags) \o Zeros(38)
    \o U16(Len(part.physics)) \o I32(IF Len(part.physics) > 0 THEN 88 ELSE 0) \o Zeros(8)
    \o ConcatAll([i \in 1..Len(part.physics) |-> PhysicsPartBytes(part.physics[i])])

PartSize(part) == 88 + 72 * Len(part.physics)

\* A part set: 32-byte header with the part count at 20 and the slot table
\* offset at 24, the ten slots (relative to the part set), the parts.
PartSetBytes(set) ==
    LET sizes == [k \in 1..Len(set.parts) |-> PartSize(set.parts[k])]
    IN  Zeros(20) \o I32(set.part_count) \o I32(32) \o Zeros(4)
        \o ConcatAll([slot \in 1..10 |->
              IF \E k \in 1..Len(set.parts) : set.parts[k].slot = slot - 1
              THEN I32(72 + SumSizes(sizes, (CHOOSE k \in 1..Len(set.parts) :
                                                 set.parts[k].slot = slot - 1) - 1))
              ELSE I32(0)])
        \o ConcatAll([k \in 1..Len(set.parts) |-> PartBytes(set.parts[k])])

PartSetSize(set) ==
    IF set.null THEN 0
    ELSE 72 + SumSizes([k \in 1..Len(set.parts) |-> PartSize(set.parts[k])], Len(set.parts))

BcsFile(doc) ==
    LET sizes == [i \in 1..Len(doc) |-> PartSetSize(doc[i])]
    IN  BCS_MAGIC \o U16(65534) \o U16(76) \o Zeros(4) \o U16(Len(doc)) \o Zeros(10)
        \o I32(76) \o Zeros(48)
        \o ConcatAll([i \in 1..Len(doc) |->
              IF doc[i].null THEN I32(0)
              ELSE I32(76 + 4 * Len(doc) + SumSizes(sizes, i - 1))])
        \o ConcatAll([i \in 1..Len(doc) |->
              IF doc[i].null THEN <<>> ELSE PartSetBytes(doc[i])])

\* Hide-flag fields: inside the ten part-type bits (0, FaceBase, Boots,
\* FaceBase|Boots, AllParts), the first bit above them, and two values with
\* the top bit set.
HideValues == {0, 1, 512, 513, 1023, 1024, -1, -2147483647}

FlagPairs == {<<v, 0>> : v \in HideValues} \cup {<<0, v>> : v \in HideValues}

PhysicsMenu ==
    {<<>>} \cup {<<[hide_flags |-> f[1], hide_mat_flags |-> f[2]]>> : f \in FlagPairs}

PartMenu ==
    {[slot |-> s, hide_flags |-> f[1], hide_mat_flags |-> f[2], physics |-> ph] :
        s \in {0, 9}, f \in FlagPairs, ph \in PhysicsMenu}

PlainPart == [slot |-> 0, hide_flags |-> 0, hide_mat_flags |-> 0, physics |-> <<>>]

NullPartSet == [null |-> TRUE, part_count |-> 0, parts |-> <<>>]

\* Part sets for the table positions: null, or a part count of 10, 9 or 11
\* with no part or a plain one.
PartSetMenu ==
    {NullPartSet}
    \cup {[null |-> FALSE, part_count |-> c, parts |-> ps] :
             c \in {10, 9, 11}, ps \in {<<>>, <<PlainPart>>}}

GoodPartSet(part) == [null |-> FALSE, part_count |-> 10, parts |-> <<part>>]

\* The files: every table of up to MaxPartSets part sets of the menu, and
\* every part of PartMenu in a part set of its own, first or second in the
\* table.
BcsDocs ==
    UNION {[1..n -> PartSetMenu] : n \in 0..MaxPartSets}
    \cup {<<GoodPartSet(p)>> : p \in PartMenu}
    \cup {<<GoodPartSet(PlainPart), GoodPartSet(p)>> : p \in PartMenu}

BcsNone == [status |-> "none", value |-> <<>>]

\* read_bcs(path) -> read_bcs_bytes on the file of bcs_doc
ReadBcsParts ==
    /\ bcs_out = BcsNone
    /\ \E r \in {read_bcs_bytes(BcsFile(bcs_doc))} : bcs_out' = r
    /\ UNCHANGED bcs_doc

BcsInit ==
    /\ bcs_doc \in BcsDocs
    /\ bcs_out = BcsNone

BcsIdle ==
    /\ bcs_doc = <<>>
    /\ bcs_out = BcsNone

(***************************************************************************)
(* _bone_child_sibling_indices on bone lists of any parents and any        *)
(* previous links.  A bone's index is its position in the list, as in      *)
(* every list the exporters and decoders build.                            *)
(***************************************************************************)
MaxLinkBones == 3

\* The child_index and sibling_index the bones carry before the call.
PreviousLinks == {<<-1, -1>>, <<0, 1>>, <<2, 0>>}

\* Lists of 1..MaxLinkBones bones; a parent index is -1, a position of the
\* list, or the position after the last.
LinkInputs ==
    UNION {{[i \in 1..n |-> [name |-> <<64 + i>>, index |-> i - 1,
                             parent_index |-> parents[i],
                             child_index |-> previous[1],
                             sibling_index |-> previous[2]]] :
               parents \in [1..n -> -1..n], previous \in PreviousLinks} :
           n \in 1..MaxLinkBones}

DeriveLinks ==
    /\ link_out = <<>>
    /\ link_out' = _bone_child_sibling_indices(link_in)
    /\ UNCHANGED link_in

LinkInit ==
    /\ link_in \in LinkInputs
    /\ link_out = <<>>

LinkIdle ==
    /\ link_in = <<>>
    /\ link_out = <<>>

(***************************************************************************)
(* The whole EMD tree through _write_emd and parse_emd: models, meshes,    *)
(* submeshes and triangle groups with their names, vertices, samplers,     *)
(* index lists and bone names.  Every bounding box is zero (the default of *)
(* EMD_Mesh and EMD_Submesh), a submesh has vertex_flags = VERTEX_POSITION *)
(* and vertices at the origin, and a sampler has its defaults but for the  *)
(* texture index.  Besides the bytes, the writer's model returns the       *)
(* layout: len(data) at the moment each structure was appended.            *)
(***************************************************************************)
\* The bytes _pad_data appends to a buffer of n bytes for alignment 4.
Pad4(n) == (4 - (n % 4)) % 4

\* The non-"NULL" names before position k, as written one after the other.
NamesWrittenBefore(bone_names, k) ==
    ConcatAll([j \in 1..(k - 1) |->
                  IF bone_names[j] # NULL_NAME THEN bone_names[j] \o <<0>> ELSE <<>>])

\* Where the pass of the triangle loop that starts at tri_start puts the
\* header, the indices and every bone name (0: nothing written).
GroupLayout(tri_start, tri_group) ==
    LET face_count == Len(tri_group.indices)
        index_bytes == (IF face_count > 65535 THEN 4 ELSE 2) * face_count
        bone_table_pos == tri_start + 16 + index_bytes + Pad4(index_bytes)
    IN  [at |-> tri_start,
         face_at |-> IF face_count > 0 THEN tri_start + 16 ELSE 0,
         bone_name_at |->
            [k \in 1..Len(tri_group.bone_names) |->
                IF tri_group.bone_names[k] = NULL_NAME THEN 0
                ELSE bone_table_pos + 4 * Len(tri_group.bone_names)
                     + Len(NamesWrittenBefore(tri_group.bone_names, k))]]

\* "for tri_idx, tri_group in enumerate(sub.triangle_groups)": st is
\* [data, layout] after k groups.
RECURSIVE WriteGroupsOfSubmesh(_, _, _, _, _)
WriteGroupsOfSubmesh(st, groups, k, tri_table, sub_off) ==
    IF k = Len(groups) THEN st
    ELSE WriteGroupsOfSubmesh(
            [data |-> WriteTriangleGroup(st.data, tri_table + 4 * k, groups[k + 1], sub_off),
             layout |-> Append(st.layout, GroupLayout(Len(st.data), groups[k + 1]))],
            groups, k + 1, tri_table, sub_off)

\* struct.pack("<BB2B2f", ...) of a sampler with texture index k.
SamplerBytes(k) == <<0, k % 256, 0, 0>> \o F32One \o F32One

\* One pass of "for sub_idx, sub in enumerate(mesh.submeshes)" (exporter.py
\* 457-645): the data after it and the layout of the submesh.
WriteSubmeshAt(data, sub_ptr_position, sub, mesh_off) ==
    Bind(_pad_data(data, 16), LAMBDA padded :
    Bind(Len(padded), LAMBDA sub_off :
    Bind(_pad_data(Poke(padded, sub_ptr_position, U32(sub_off - mesh_off))
                   \o Zeros(48) \o U32(VERTEX_POSITION)
                   \o U32(get_vertex_size_from_flags(VERTEX_POSITION))
                   \o U32(sub.vertex_count) \o Zeros(4) \o U32(80)
                   \o <<0>> \o <<sub.samplers % 256>>
                   \o U16(Len(sub.triangle_groups) % 65536) \o Zeros(4) \o Zeros(4)
                   \o sub.name \o <<0>>, 4),
         LAMBDA named :
    Bind(Poke(named, sub_off + 72, U32(Len(named) - sub_off))
         \o ConcatAll([k \in 1..sub.samplers |-> SamplerBytes(k)]),
         LAMBDA sampled :
    Bind(WriteGroupsOfSubmesh(
            [data |-> Poke(sampled, sub_off + 76, U32(Len(sampled) - sub_off))
                      \o Zeros(4 * Len(sub.triangle_groups)),
             layout |-> <<>>],
            sub.triangle_groups, 0, Len(sampled), sub_off),
         LAMBDA grouped :
        [data |-> Poke(grouped.data, sub_off + 60, U32(Len(grouped.data) - sub_off))
                  \o Zeros(12 * sub.vertex_count),
         layout |-> [at |-> sub_off,
                     name_at |-> sub_off + 80,
                     vertex_at |-> Len(grouped.data),
                     sampler_at |-> IF sub.samplers > 0 THEN Len(named) ELSE 0,
                     triangle_groups |-> grouped.layout]])))))

RECURSIVE WriteSubmeshesOfMesh(_, _, _, _, _)
WriteSubmeshesOfMesh(st, submeshes, k, sub_table, mesh_off) ==
    IF k = Len(submeshes) THEN st
    ELSE Bind(WriteSubmeshAt(st.data, sub_table + 4 * k, submeshes[k + 1], mesh_off),
              LAMBDA r :
                WriteSubmeshesOfMesh([data |-> r.data, layout |-> Append(st.layout, r.layout)],
                                     submeshes, k + 1, sub_table, mesh_off))

\* The entry of the mesh table: 'struct.pack_into("<I", data,
\* mesh_ptr_positions[mesh_idx], mesh_off - model_off)'.
MeshPointerFromFileStart(mesh_off, model_off) == mesh_off

MeshPointer(mesh_off, model_off) == mesh_off - model_off

\* One pass of "for mesh_idx, mesh in enumerate(model.meshes)" (exporter.py
\* 427-651); the mesh pointer is stored after the submeshes are written.
WriteMeshAt(data, mesh_ptr_position, mesh, model_off) ==
    Bind(_pad_data(data, 16), LAMBDA padded :
    Bind(Len(padded), LAMBDA mesh_off :
    Bind(_pad_data(padded \o Zeros(48) \o Zeros(4) \o U16(0)
                   \o U16(Len(mesh.submeshes) % 65536) \o Zeros(4)
                   \o mesh.name \o <<0>>, 4),
         LAMBDA named :
    Bind(WriteSubmeshesOfMesh(
            [data |-> _pad_data(
                         Poke(Poke(named, mesh_off + 48, U32(60)),
                              mesh_off + 56, U32(Len(named) - mesh_off))
                         \o Zeros(4 * Len(mesh.submeshes)), 16),
             layout |-> <<>>],
            mesh.submeshes, 0, Len(named), mesh_off),
         LAMBDA subs :
        [data |-> Poke(subs.data, mesh_ptr_position, U32(MeshPointer(mesh_off, model_off))),
         layout |-> [at |-> mesh_off,
                     name_at |-> mesh_off + 60,
                     submeshes |-> subs.layout]]))))

RECURSIVE WriteMeshesOfModel(_, _, _, _, _)
WriteMeshesOfModel(st, meshes, k, mesh_table, model_off) ==
    IF k = Len(meshes) THEN st
    ELSE Bind(WriteMeshAt(st.data, mesh_table + 4 * k, meshes[k + 1], model_off),
              LAMBDA r :
                WriteMeshesOfModel([data |-> r.data, layout |-> Append(st.layout, r.layout)],
                                   meshes, k + 1, mesh_table, model_off))

\* One pass of "for model in emd.models" (exporter.py 408-651).
WriteModelAt(data, model) ==
    Bind(_pad_data(data, 16), LAMBDA padded :
    Bind(WriteMeshesOfModel(
            [data |-> _pad_data(padded \o U16(0) \o U16(Len(model.meshes) % 65536)
                                \o U32(8) \o Zeros(4 * Len(model.meshes)), 16),
             layout |-> <<>>],
            model.meshes, 0, Len(padded) + 8, Len(padded)),
         LAMBDA meshes :
        [data |-> meshes.data,
         layout |-> [at |-> Len(padded), meshes |-> meshes.layout]]))

RECURSIVE WriteModels(_, _, _)
WriteModels(st, models, k) ==
    IF k = Len(models) THEN st
    ELSE Bind(WriteModelAt(st.data, models[k + 1]), LAMBDA r :
              WriteModels([data |-> r.data, layout |-> Append(st.layout, r.layout)],
                          models, k + 1))

\* The names of the models one after the other, as appended after the
\* model-name pointer table.
ModelNamesBefore(models, k) == ConcatAll([j \in 1..(k - 1) |-> models[j].name \o <<0>>])

\* struct.pack("<H", idx) raises struct.error for an index above 65535, and
\* struct.pack("<I", idx) takes every index the model holds (all are below
\* 2^31): whether the index can be packed at the width of its group.
AnyIndexFits(idx, use_32) == TRUE

IndexFits(idx, use_32) == use_32 \/ idx <= 65535

\* Whether every struct.pack of "for idx in tri_group.indices" succeeds.
IndicesFit(indices) ==
    \E use_32 \in {Len(indices) > 65535} :
       \A f \in 1..Len(indices) : IndexFits(indices[f], use_32)

RECURSIVE PokeAll(_, _, _, _)
PokeAll(data, table, values, k) ==
    IF k = Len(values) THEN data
    ELSE PokeAll(Poke(data, table + 4 * k, U32(values[k + 1])), table, values, k + 1)

\* _write_emd(emd, path): the bytes written to the file and the layout.
_write_emd(models) ==
    IF \E m \in 1..Len(models) : \E e \in 1..Len(models[m].meshes) :
          \E u \in 1..Len(models[m].meshes[e].submeshes) :
             \E g \in 1..Len(models[m].meshes[e].submeshes[u].triangle_groups) :
                ~IndicesFit(models[m].meshes[e].submeshes[u].triangle_groups[g].indices)
    THEN [status |-> "struct.error", data |-> <<>>, layout |-> <<>>]
    ELSE
    Bind(WriteModels([data |-> _pad_data(Zeros(28) \o Zeros(4 * Len(models)), 16),
                      layout |-> <<>>], models, 0),
         LAMBDA body :
    Bind(_pad_data(body.data, 4), LAMBDA padded :
    Bind(Len(padded) + 4 * Len(models), LAMBDA names_start :
    Bind([k \in 1..Len(models) |-> names_start + Len(ModelNamesBefore(models, k))],
         LAMBDA name_offs :
    Bind(padded \o Zeros(4 * Len(models)) \o ModelNamesBefore(models, Len(models) + 1),
         LAMBDA named :
        [status |-> "ok",
         data |->
            Poke(Poke(Poke(Poke(Poke(Poke(Poke(
                PokeAll(
                    PokeAll(named, Len(padded), name_offs, 0),
                    28, [k \in 1..Len(models) |-> body.layout[k].at], 0),
                0, U32(EMD_SIGNATURE)), 4, U16(65534)), 6, U16(28)), 8, U32(513)),
                18, U16(Len(models))), 20, U32(28)), 24, U32(Len(padded))),
         layout |-> [k \in 1..Len(models) |->
                        [at |-> body.layout[k].at,
                         name_at |-> name_offs[k],
                         meshes |-> body.layout[k].meshes]]])))))

\* Bound: the number of models of the file.
MaxTreeModels == 2

\* The triangle groups, submeshes, meshes and models the trees are made of.
GroupPlain == [indices |-> <<>>, bone_names |-> <<>>]

GroupNamed == [indices |-> <<0, 1, 2>>, bone_names |-> <<<<98>>, NULL_NAME, <<98, 99>>>>]

GroupWide == [indices |-> <<2, 258, 0, 1, 2>>, bone_names |-> <<<<>>, <<99>>>>]

SubmeshPlain == [name |-> <<>>, vertex_count |-> 0, samplers |-> 0, triangle_groups |-> <<>>]

SubmeshFull ==
    [name |-> <<115>>, vertex_count |-> 2, samplers |-> 1,
     triangle_groups |-> <<GroupNamed, GroupPlain>>]

SubmeshWide ==
    [name |-> <<116, 50>>, vertex_count |-> 1, samplers |-> 2,
     triangle_groups |-> <<GroupWide>>]

MeshPlain == [name |-> <<>>, submeshes |-> <<>>]

MeshFull == [name |-> <<109>>, submeshes |-> <<SubmeshPlain, SubmeshFull>>]

MeshWide == [name |-> <<109, 109>>, submeshes |-> <<SubmeshWide>>]

ModelMenu ==
    {[name |-> <<>>, meshes |-> <<>>],
     [name |-> <<65>>, meshes |-> <<MeshPlain>>],
     [name |-> <<66>>, meshes |-> <<MeshWide>>],
     [name |-> <<65, 66>>, meshes |-> <<MeshFull, MeshWide>>]}

TreeDocs == UNION {[1..n -> ModelMenu] : n \in 0..MaxTreeModels}

\* The entries of the four nested pointer tables of a written file: the
\* table level, the position of the entry in the file and the path (the
\* 1-based positions in the model, mesh, submesh and triangle-group lists)
\* of the element it points to.
TableSlots(file) ==
    LET D == file.data
        L == file.layout
        mesh_table(m) == L[m].at + Rd32(D, L[m].at + 4)
        sub_table(m, e) == L[m].meshes[e].at + Rd32(D, L[m].meshes[e].at + 56)
        tri_table(m, e, s) ==
            L[m].meshes[e].submeshes[s].at + Rd32(D, L[m].meshes[e].submeshes[s].at + 76)
    IN  {[level |-> "model", pos |-> Rd32(D, 20) + 4 * (m - 1), path |-> <<m>>] :
            m \in 1..Len(L)}
        \cup UNION {{[level |-> "mesh", pos |-> mesh_table(m) + 4 * (e - 1),
                      path |-> <<m, e>>] : e \in 1..Len(L[m].meshes)} : m \in 1..Len(L)}
        \cup UNION {UNION {{[level |-> "submesh", pos |-> sub_table(m, e) + 4 * (s - 1),
                             path |-> <<m, e, s>>] :
                               s \in 1..Len(L[m].meshes[e].submeshes)} :
                           e \in 1..Len(L[m].meshes)} : m \in 1..Len(L)}
        \cup UNION {UNION {UNION {{[level |-> "triangle_group",
                                    pos |-> tri_table(m, e, s) + 4 * (t - 1),
                                    path |-> <<m, e, s, t>>] :
                                      t \in 1..Len(L[m].meshes[e].submeshes[s].triangle_groups)} :
                                  s \in 1..Len(L[m].meshes[e].submeshes)} :
                           e \in 1..Len(L[m].meshes)} : m \in 1..Len(L)}

TreeNone == [status |-> "none", value |-> <<>>]

NotWritten == [status |-> "none", data |-> <<>>, layout |-> <<>>]

NoSlot == [level |-> "none", pos |-> 0, path |-> <<>>]

\* _write_emd on the tree
WriteTree ==
    /\ tree_file.status = "none"
    /\ tree_file' = _write_emd(tree_doc)
    /\ UNCHANGED <<tree_doc, tree_zero, tree_parsed>>

\* parse_emd on the written file
ParseTree ==
    /\ tree_file.status = "ok"
    /\ tree_parsed = TreeNone
    /\ tree_parsed' = parse_emd(tree_file.data)
    /\ UNCHANGED <<tree_doc, tree_file, tree_zero>>

\* parse_emd on the file with one entry of one pointer table set to zero
ParseTreeWithZeroEntry ==
    /\ tree_file.status = "ok"
    /\ tree_parsed = TreeNone
    /\ \E slot \in TableSlots(tree_file) :
          /\ tree_zero' = slot
          /\ tree_parsed' = parse_emd(Poke(tree_file.data, slot.pos, Zeros(4)))
    /\ UNCHANGED <<tree_doc, tree_file>>

TreeInit ==
    /\ tree_doc \in TreeDocs
    /\ tree_file = NotWritten
    /\ tree_zero = NoSlot
    /\ tree_parsed = TreeNone

TreeIdle ==
    /\ tree_doc = <<>>
    /\ tree_file = NotWritten
    /\ tree_zero = NoSlot
    /\ tree_parsed = TreeNone

\* Bound: the number of indices of the short triangle groups.
MaxShortIndices == 3

\* "use_32 = face_count > 0xFFFF" (exporter.py 533) and
\* "is32 = face_count > 65535" (EMD.py 431): the largest 16-bit count.
MAX_16_BIT_COUNT == 65535

IndexValues == {0, 255, 256, 1000, 65535, 65536, 70000}

LongIndexValues == {65535, 65536}

\* The triangle groups whose indices are written: count indices, the one
\* at position "at" with the given value, the others below 251.
IndexDocs ==
    {[count |-> 0, value |-> 0, at |-> 0]}
    \cup UNION {{[count |-> c, value |-> v, at |-> a] : v \in IndexValues, a \in {1, c}} :
                  c \in 1..MaxShortIndices}
    \cup UNION {{[count |-> c, value |-> v, at |-> a] : v \in LongIndexValues, a \in {1, c}} :
                  c \in {MAX_16_BIT_COUNT, MAX_16_BIT_COUNT + 1}}

IndexList(d) == [i \in 1..d.count |-> IF i = d.at THEN d.value ELSE (i - 1) % 251] \o <<>>

\* The EMD_File of one model, one mesh, one submesh and one triangle group
\* with the indices.
OneGroupTree(indices) ==
    <<[name |-> <<65>>,
       meshes |-> <<[name |-> <<109>>,
                     submeshes |-> <<[name |-> <<115>>, vertex_count |-> 0, samplers |-> 0,
                                      triangle_groups |->
                                         <<[indices |-> indices, bone_names |-> <<>>]>>]>>]>>]>>

\* _write_emd on the file with the triangle group
WriteIndices ==
    /\ width_file.status = "none"
    /\ width_file' = _write_emd(OneGroupTree(IndexList(width_doc)))
    /\ UNCHANGED <<width_doc, width_indices>>

\* parse_emd on the written file: the indices of its triangle group
ReadIndices ==
    /\ width_file.status = "ok"
    /\ width_indices.status = "none"
    /\ \E parsed \in {parse_emd(width_file.data)} :
          width_indices' =
             IF parsed.status # "ok" THEN Failed(parsed.status)
             ELSE Decoded(parsed.value.models[1].meshes[1].submeshes[1]
                                .triangle_groups[1].indices)
    /\ UNCHANGED <<width_doc, width_file>>

WidthInit ==
    /\ width_doc \in IndexDocs
    /\ width_file = NotWritten
    /\ width_indices = TreeNone

WidthIdle ==
    /\ width_doc = [count |-> 0, value |-> 0, at |-> 0]
    /\ width_file = NotWritten
    /\ width_indices = TreeNone

(***************************************************************************)
(* EAN animation blocks: the bytes of one animation as written by the      *)
(* character exporter (_build_animation_bytes) and the camera exporter     *)
(* (_pack_animation), and _EANParser._parse_animation on them.  kf_job is  *)
(* an export job as in the animation model, with frames on both sides of   *)
(* the 8-bit and 16-bit limits; kf_file holds the block behind 32 bytes of *)
(* file header, so that the animation offset is not 0.  The keyframe       *)
(* values are written as zeros (8 bytes for each keyframe, half floats).   *)
(***************************************************************************)

\* "index_size = 1 if frame_count > 255 else 0" (exporter_char.py 391),
\* "use_16bit_indices = frame_count > 255" (exporter_cam.py 248).
MAX_8_BIT_FRAME_COUNT == 255

\* The offset of the animation block in the file.
ANIMATION_OFFSET == 32

_align16(buf) == _pad_data(buf, 16)

\* Whether struct.pack("<B", frame_idx) (index_size 0) or
\* struct.pack("<H", frame_idx) (index_size 1) succeeds.
AnyFrameFits(frame_idx, index_size) == TRUE

FrameFits(frame_idx, index_size) ==
    frame_idx >= 0 /\ frame_idx <= (IF index_size = 0 THEN 255 ELSE 65535)

PackFrame(frame_idx, index_size) ==
    IF index_size = 0 THEN <<frame_idx % 256>> ELSE U16(frame_idx % 65536)

\* The type byte of a component: ComponentType.Position, Rotation, Scale;
\* the camera exporter writes the target as ComponentType.Rotation.
TypeByte(type) ==
    IF type = "pos" THEN 0 ELSE IF type = "scl" THEN 2 ELSE 1

\* Whether every struct.pack of the block succeeds.
BlockFits(frame_count, nodes, index_size) ==
    /\ frame_count >= 0
    /\ \A n \in 1..Len(nodes) : \A c \in 1..Len(nodes[n].comps) :
          \A k \in 1..Len(nodes[n].comps[c].keyframes) :
             FrameFits(nodes[n].comps[c].keyframes[k][1], index_size)

FrameBytes(keyframes, index_size) ==
    ConcatAll([k \in 1..Len(keyframes) |-> PackFrame(keyframes[k][1], index_size)])

\* One pass of "for comp_idx, (ctype, i01, i02, keyframes) in
\* enumerate(comps)" (exporter_char.py 521-556).
WriteCharComponent(anim, comp, slot, node_start, index_size) ==
    Bind(Len(anim), LAMBDA comp_start :
    Bind(Poke(anim, slot, U32(comp_start - node_start))
         \o <<TypeByte(comp.type), 7>> \o I16(0) \o U32(Len(comp.keyframes)) \o Zeros(8),
         LAMBDA headed :
    Bind(_align16(headed \o FrameBytes(comp.keyframes, index_size)), LAMBDA indexed :
        Poke(Poke(indexed \o Zeros(8 * Len(comp.keyframes)),
                  comp_start + 8, U32(Len(headed) - comp_start)),
             comp_start + 12, U32(Len(indexed) - comp_start)))))

RECURSIVE WriteCharComponents(_, _, _, _, _, _)
WriteCharComponents(anim, comps, k, comp_table_offset, node_start, index_size) ==
    IF k = Len(comps) THEN anim
    ELSE Bind(WriteCharComponent(anim, comps[k + 1], comp_table_offset + 4 * k,
                                 node_start, index_size),
              LAMBDA d : WriteCharComponents(d, comps, k + 1, comp_table_offset,
                                             node_start, index_size))

\* "for node_idx, (bone_idx, comps) in enumerate(nodes)" (exporter_char.py
\* 510-556).
RECURSIVE WriteCharNodes(_, _, _, _, _)
WriteCharNodes(anim, nodes, k, node_table_offset, index_size) ==
    IF k = Len(nodes) THEN anim
    ELSE Bind(Len(anim), LAMBDA node_start :
         Bind(Poke(anim, node_table_offset + 4 * k, U32(node_start))
              \o I16(nodes[k + 1].bone_idx) \o I16(Len(nodes[k + 1].comps)) \o U32(8),
              LAMBDA headed :
         Bind(WriteCharComponents(headed \o Zeros(4 * Len(nodes[k + 1].comps)),
                                  nodes[k + 1].comps, 0, Len(headed), node_start,
                                  index_size),
              LAMBDA d : WriteCharNodes(d, nodes, k + 1, node_table_offset, index_size))))

\* The node list of _build_animation_bytes: the bones with components, with
\* their index in esk.bones (the root is bone 0).
CharNodes(built) ==
    LET all == [b \in 1..Len(built.nodes) |-> [bone_idx |-> b, comps |-> built.nodes[b]]]
    IN  SelectSeq(all, LAMBDA node : node.comps # <<>>)

\* The bytes _build_animation_bytes returns (exporter_char.py 390-392,
\* 493-560): Decoded(<<>>) for b"", Failed("struct.error") when a
\* struct.pack raises.
CharAnimationBytes(job) ==
    Bind(_build_animation_bytes(job), LAMBDA built :
    IF built.status = "empty" THEN Decoded(<<>>)
    ELSE Bind(CharNodes(built), LAMBDA nodes :
         Bind(IF built.frame_count > MAX_8_BIT_FRAME_COUNT THEN 1 ELSE 0, LAMBDA index_size :
         IF nodes = <<>> THEN Decoded(<<>>)
         ELSE IF ~BlockFits(built.frame_count, nodes, index_size) THEN Failed("struct.error")
         ELSE Decoded(
                 WriteCharNodes(<<0, 0, index_size, 1>> \o U32(built.frame_count)
                                \o U32(Len(nodes)) \o U32(16) \o Zeros(4 * Len(nodes)),
                                nodes, 0, 16, index_size)
                 \o Zeros(12)))))

\* One pass of "for idx, comp in enumerate(components)" of _pack_animation
\* (exporter_cam.py 136-168).
WriteCamComponent(data, comp, slot, node_start, index_size) ==
    Bind(Len(data), LAMBDA comp_start :
    Bind(FrameBytes(comp.keyframes, index_size), LAMBDA idx_bytes :
        Poke(data, slot, U32(comp_start - node_start))
        \o <<TypeByte(comp.type), 3>> \o I16(0) \o U32(Len(comp.keyframes)) \o U32(16)
        \o U32(16 + Len(idx_bytes)) \o idx_bytes \o Zeros(8 * Len(comp.keyframes))))

RECURSIVE WriteCamComponents(_, _, _, _, _, _)
WriteCamComponents(data, comps, k, comp_table_start, node_start, index_size) ==
    IF k = Len(comps) THEN data
    ELSE Bind(WriteCamComponent(data, comps[k + 1], comp_table_start + 4 * k,
                                node_start, index_size),
              LAMBDA d : WriteCamComponents(d, comps, k + 1, comp_table_start,
                                            node_start, index_size))

\* _pack_animation(components, frame_count, use_16bit_indices).
_pack_animation(components, frame_count, use_16bit_indices) ==
    Bind(IF use_16bit_indices THEN 1 ELSE 0, LAMBDA index_size :
    IF ~BlockFits(frame_count, <<[bone_idx |-> 0, comps |-> components]>>, index_size)
    THEN Failed("struct.error")
    ELSE IF components = <<>>
    THEN Decoded(<<0, 0, index_size, 1>> \o U32(frame_count) \o U32(0) \o U32(0))
    ELSE Decoded(
            WriteCamComponents(
               <<0, 0, index_size, 1>> \o U32(frame_count) \o U32(1) \o U32(16) \o U32(20)
               \o I16(0) \o I16(Len(components)) \o U32(8) \o Zeros(4 * Len(components)),
               components, 0, 28, 20, index_size)))

\* The animation block export_cam_ean makes for one base name
\* (exporter_cam.py 237-353).
CamAnimationBytes(job) ==
    Bind(export_cam_components(job), LAMBDA built :
        _pack_animation(built.nodes[1], built.frame_count,
                        built.frame_count > MAX_8_BIT_FRAME_COUNT))

\* ComponentType(byte) when the byte is a member of the enum, otherwise
\* ComponentType.Unknown (EAN.py 22-26, 181-185).
ComponentTypeOf(byte) == IF byte \in {0, 1, 2, 255} THEN byte ELSE 255

\* _EANParser._parse_keyframes: the frame indices.
_parse_keyframes(data, index_offset, count, index_size) ==
    [k \in 1..count |->
        IF index_size = 0 THEN data[index_offset + (k - 1) + 1]
        ELSE Rd16(data, index_offset + 2 * (k - 1))]

\* The component at comp_ptr (EAN.py 180-205).
ParseComponentAt(data, comp_ptr, index_size) ==
    [type |-> ComponentTypeOf(data[comp_ptr + 1]),
     i_01 |-> data[comp_ptr + 2],
     frames |-> _parse_keyframes(data, RdI32(data, comp_ptr + 8) + comp_ptr,
                                 RdI32(data, comp_ptr + 4), index_size)]

\* The node at node_ptr (EAN.py 168-209).
ParseNodeAt(data, node_ptr, index_size) ==
    [bone_index |-> RdI16(data, node_ptr),
     components |->
        [c \in 1..RdI16(data, node_ptr + 2) |->
            ParseComponentAt(data,
                             RdI32(data, RdI32(data, node_ptr + 4) + node_ptr + 4 * (c - 1))
                             + node_ptr,
                             index_size)]]

\* _EANParser._parse_animation(offset, ...): FloatPrecision(float_size) and
\* IntPrecision(index_size) raise ValueError on a value outside the enum.
\* The blocks parsed are blocks as written, so every read is inside the
\* buffer.
_parse_animation(data, offset) ==
    LET index_size == data[offset + 3]
        float_size == data[offset + 4]
        node_count == RdI32(data, offset + 8)
        node_table_offset == RdI32(data, offset + 12) + offset
    IN  IF float_size \notin {1, 2} THEN Failed("ValueError")
        ELSE IF index_size \notin {0, 1}
                /\ \E n \in 1..node_count :
                      RdI16(data, RdI32(data, node_table_offset + 4 * (n - 1)) + offset + 2) > 0
        THEN Failed("ValueError")
        ELSE Decoded([index_size |-> index_size,
                      frame_count |-> Rd32(data, offset + 4),
                      nodes |-> [n \in 1..node_count |->
                                    ParseNodeAt(data,
                                                RdI32(data, node_table_offset + 4 * (n - 1))
                                                + offset,
                                                index_size)]])

\* The frames keyed in the jobs: on both sides of 0, of the 8-bit limit and
\* of the 16-bit limit.
WideFrameSets ==
    {{}, {-2}, {-1}, {0}, {1}, {253}, {254}, {255}, {256}, {65534}, {65535}, {65536},
     {0, 254}, {0, 255}, {1, 254}, {3, 65535}, {-1, 3}, {255, 65536}}

WideCharJobs ==
    {[kind |-> "char", add_dummy_rest |-> d,
      frames |-> <<[pos |-> K1, rot |-> {}, scl |-> {}],
                   [pos |-> {}, rot |-> K2, scl |-> K2]>>] :
        d \in BOOLEAN, K1 \in WideFrameSets, K2 \in WideFrameSets}

WideCamJobs == [kind : {"cam"}, frames : WideFrameSets, has_target : BOOLEAN]

KfNone == [status |-> "none", value |-> <<>>]

NoPatch == [pos |-> 0, byte |-> 0]

\* The type bytes put into a written component.
TypeBytes == {0, 1, 2, 3, 7, 254, 255}

\* The offsets in the file of the type bytes of the components.
ComponentPositions(data) ==
    LET nodes == [n \in 1..RdI32(data, ANIMATION_OFFSET + 8) |->
                     RdI32(data, RdI32(data, ANIMATION_OFFSET + 12) + ANIMATION_OFFSET
                                 + 4 * (n - 1)) + ANIMATION_OFFSET]
    IN  UNION {{RdI32(data, RdI32(data, nodes[n] + 4) + nodes[n] + 4 * (c - 1)) + nodes[n] :
                   c \in 1..RdI16(data, nodes[n] + 2)} : n \in 1..Len(nodes)}

InFile(block) ==
    IF block.status = "ok" /\ block.value # <<>>
    THEN Decoded(Zeros(ANIMATION_OFFSET) \o block.value)
    ELSE block

\* export_ean -> _build_animation_bytes
WriteCharFrames ==
    /\ kf_job.kind = "char"
    /\ kf_file = KfNone
    /\ kf_file' = InFile(CharAnimationBytes(kf_job))
    /\ UNCHANGED <<kf_job, kf_patch, kf_parsed>>

\* export_cam_ean -> _pack_animation
WriteCamFrames ==
    /\ kf_job.kind = "cam"
    /\ kf_file = KfNone
    /\ kf_file' = InFile(CamAnimationBytes(kf_job))
    /\ UNCHANGED <<kf_job, kf_patch, kf_parsed>>

\* _parse_animation on the written block
ReadFrames ==
    /\ kf_file.status = "ok"
    /\ kf_file.value # <<>>
    /\ kf_parsed = KfNone
    /\ kf_parsed' = _parse_animation(kf_file.value, ANIMATION_OFFSET)
    /\ UNCHANGED <<kf_job, kf_file, kf_patch>>

\* _parse_animation on the block with another type byte in one component
ReadWithTypeByte ==
    /\ kf_file.status = "ok"
    /\ kf_file.value # <<>>
    /\ kf_parsed = KfNone
    /\ \E pos \in ComponentPositions(kf_file.value) : \E byte \in TypeBytes :
          /\ kf_patch' = [pos |-> pos, byte |-> byte]
          /\ kf_parsed' = _parse_animation(Poke(kf_file.value, pos, <<byte>>),
                                           ANIMATION_OFFSET)
    /\ UNCHANGED <<kf_job, kf_file>>

KfInit ==
    /\ kf_job \in WideCharJobs \cup WideCamJobs
    /\ kf_file = KfNone
    /\ kf_patch = NoPatch
    /\ kf_parsed = KfNone

KfIdle ==
    /\ kf_job = [kind |-> "none"]
    /\ kf_file = KfNone
    /\ kf_patch = NoPatch
    /\ kf_parsed = KfNone

(***************************************************************************)
(* The UV channels of one vertex: read_vertices, the importer's UV layers, *)
(* _collect_vertex_data_for_material and the vertex block of _write_emd.   *)
(* A coordinate c is held as the integer UV_ONE * c (quarters), so that    *)
(* every value and every 1.0 - v is exact in a half float as well; the     *)
(* bytes are those of the IEEE half and single formats.                    *)
(***************************************************************************)
UV_ONE == 4

\* The exponent of m > 0: 2^p <= m < 2^(p + 1).
FloorLog2(m) == CHOOSE p \in 0..30 : 2^p <= m /\ m < 2^(p + 1)

ScaleBy(n, e) == IF e >= 0 THEN n * 2^e ELSE n \div 2^(0 - e)

\* float_to_half(value): the bits of struct.pack("<e", value); sign, 5
\* exponent bits (bias 15), 10 fraction bits.
float_to_half(value) ==
    IF value = 0 THEN 0
    ELSE Bind(FloorLog2(Abs(value)), LAMBDA p :
            (IF value < 0 THEN 32768 ELSE 0)
            + (p - 2 + 15) * 1024
            + ScaleBy(Abs(value) - 2^p, 10 - p))

\* half_to_float(half_bits)
half_to_float(half_bits) ==
    LET sign == half_bits \div 32768
        e == (half_bits % 32768) \div 1024
        f == half_bits % 1024
        magnitude == IF e = 0 THEN ScaleBy(f, 2 - 24) ELSE ScaleBy(1024 + f, e - 15 - 10 + 2)
    IN  IF sign = 1 THEN 0 - magnitude ELSE magnitude

\* struct.pack("<f", value): sign, 8 exponent bits (bias 127), 23 fraction
\* bits, least significant byte first.
PackF32(value) ==
    IF value = 0 THEN <<0, 0, 0, 0>>
    ELSE Bind(FloorLog2(Abs(value)), LAMBDA p :
         Bind(p - 2 + 127, LAMBDA e :
         Bind(ScaleBy(Abs(value) - 2^p, 23 - p), LAMBDA f :
            <<f % 256, (f \div 256) % 256, (e % 2) * 128 + f \div 65536,
              (IF value < 0 THEN 128 ELSE 0) + e \div 2>>)))

\* struct.unpack_from("<f", data, offset)
UnpackF32(data, offset) ==
    LET sign == data[offset + 4] \div 128
        e == (data[offset + 4] % 128) * 2 + data[offset + 3] \div 128
        f == (data[offset + 3] % 128) * 65536 + data[offset + 2] * 256 + data[offset + 1]
        magnitude == IF e = 0 THEN 0 ELSE ScaleBy(8388608 + f, e - 127 - 23 + 2)
    IN  IF sign = 1 THEN 0 - magnitude ELSE magnitude

\* One UV channel of read_vertices at data[at]: (u, 1.0 - v).
ReadUvChannel(data, at, is_compressed) ==
    IF is_compressed
    THEN <<half_to_float(Rd16(data, at)), UV_ONE - half_to_float(Rd16(data, at + 2))>>
    ELSE <<UnpackF32(data, at), UV_ONE - UnpackF32(data, at + 4)>>

\* EMD_Vertex(): the UV channels that no flag sets stay (0.0, 0.0).
DefaultUv == <<0, 0>>

\* The uv and uv2 of the vertex read_vertices decodes at vertex_pointer.
ReadVertexUv(flags, data, vertex_pointer) ==
    LET is_compressed == HasFlag(flags, VERTEX_COMPRESSED)
        after_pos == IF HasFlag(flags, VERTEX_POSITION)
                     THEN get_vertex_size_from_flags(VERTEX_POSITION) ELSE 0
        after_normal == after_pos + ChannelRead(flags, VERTEX_NORMAL)
        after_uv == after_normal + ChannelRead(flags, VERTEX_TEXUV)
    IN  [uv |-> IF HasFlag(flags, VERTEX_TEXUV)
                THEN ReadUvChannel(data, vertex_pointer + after_normal, is_compressed)
                ELSE DefaultUv,
         uv2 |-> IF HasFlag(flags, VERTEX_TEX2UV)
                 THEN ReadUvChannel(data, vertex_pointer + after_uv, is_compressed)
                 ELSE DefaultUv]

\* One UV channel of _write_emd: vertex.uv packed as it is.
PackUvChannel(uv, is_comp) ==
    IF is_comp
    THEN U16(float_to_half(uv[1])) \o U16(float_to_half(uv[2]))
    ELSE PackF32(uv[1]) \o PackF32(uv[2])

\* The bytes _write_emd appends for a vertex at position (0, 0, 0) with the
\* flags of position and UV channels.
VertexUvBytes(flags, vertex) ==
    PackF32(0) \o PackF32(0) \o PackF32(0)
    \o (IF HasFlag(flags, VERTEX_TEXUV)
        THEN PackUvChannel(vertex.uv, HasFlag(flags, VERTEX_COMPRESSED)) ELSE <<>>)
    \o (IF HasFlag(flags, VERTEX_TEX2UV)
        THEN PackUvChannel(vertex.uv2, HasFlag(flags, VERTEX_COMPRESSED)) ELSE <<>>)

NoLayer == <<>>

\* The importer makes a UV layer when some vertex has a UV other than
\* (0.0, 0.0) and puts the decoded UV into it unchanged.
LayerOf(uv) == IF uv # DefaultUv THEN uv ELSE NoLayer

\* A faulty variant of CollectedUv: the layer value taken as it is.
CollectedUvAsIs(layer) == IF layer # NoLayer THEN layer ELSE DefaultUv

\* _collect_vertex_data_for_material: vtx.uv = (uv_val.x, 1.0 - uv_val.y)
\* when the layer exists.
CollectedUv(layer) ==
    IF layer # NoLayer THEN <<layer[1], UV_ONE - layer[2]>> ELSE DefaultUv

UvFlagMenu ==
    {VERTEX_POSITION + a * VERTEX_TEXUV + b * VERTEX_TEX2UV + c * VERTEX_COMPRESSED :
        a \in {0, 1}, b \in {0, 1}, c \in {0, 1}} \ {VERTEX_POSITION, VERTEX_POSITION + VERTEX_COMPRESSED}

\* Stored coordinates, in quarters: -1, 0, 1/4, 1/2, 3/4, 1 and 2.
StoredUvMenu == {<<u, v>> : u \in {0, 2}, v \in {-4, 0, 1, 2, 3, 4, 8}}

UvNone == [uv |-> NoLayer, uv2 |-> NoLayer]

\* No mesh imported yet.
NoLayers == [made |-> FALSE, uv |-> NoLayer, uv2 |-> NoLayer]

UvNoBytes == [via |-> "none", data |-> <<>>]

\* The vertex block of the file the stored values are in.
StoredBytes == VertexUvBytes(uv_src.flags, uv_src)

\* read_vertices on the file.
ReadUv ==
    /\ uv_vertex = UvNone
    /\ uv_vertex' = ReadVertexUv(uv_src.flags, StoredBytes, 0)
    /\ UNCHANGED <<uv_src, uv_layers, uv_built, uv_out>>

\* The importer fills the UV layers of the mesh from the decoded vertex.
ImportUv ==
    /\ uv_vertex # UvNone
    /\ uv_layers = NoLayers
    /\ uv_out = UvNoBytes
    /\ uv_layers' = [made |-> TRUE, uv |-> LayerOf(uv_vertex.uv),
                     uv2 |-> LayerOf(uv_vertex.uv2)]
    /\ UNCHANGED <<uv_src, uv_vertex, uv_built, uv_out>>

\* _collect_vertex_data_for_material builds the vertex from the layers.
CollectUv ==
    /\ uv_layers.made
    /\ uv_built = UvNone
    /\ uv_built' = [uv |-> CollectedUv(uv_layers.uv), uv2 |-> CollectedUv(uv_layers.uv2)]
    /\ UNCHANGED <<uv_src, uv_vertex, uv_layers, uv_out>>

\* _write_emd writes the collected vertex; the flags are those the importer
\* kept in emd_vertex_flags.
WriteCollectedUv ==
    /\ uv_built # UvNone
    /\ uv_out = UvNoBytes
    /\ uv_out' = [via |-> "collected", data |-> VertexUvBytes(uv_src.flags, uv_built)]
    /\ UNCHANGED <<uv_src, uv_vertex, uv_layers, uv_built>>

\* _write_emd writes the decoded vertex itself.
WriteDecodedUv ==
    /\ uv_vertex # UvNone
    /\ uv_layers = NoLayers
    /\ uv_out = UvNoBytes
    /\ uv_out' = [via |-> "decoded", data |-> VertexUvBytes(uv_src.flags, uv_vertex)]
    /\ UNCHANGED <<uv_src, uv_vertex, uv_layers, uv_built>>

UvInit ==
    /\ uv_src \in [flags : UvFlagMenu, uv : StoredUvMenu, uv2 : StoredUvMenu]
    /\ uv_vertex = UvNone
    /\ uv_layers = NoLayers
    /\ uv_built = UvNone
    /\ uv_out = UvNoBytes

UvIdle ==
    /\ uv_src = [flags |-> 0, uv |-> DefaultUv, uv2 |-> DefaultUv]
    /\ uv_vertex = UvNone
    /\ uv_layers = NoLayers
    /\ uv_built = UvNone
    /\ uv_out = UvNoBytes

(***************************************************************************)
(* export_ean and the operator EXPORT_OT_ean.  The armature "Arm" has the  *)
(* bones of AnimBones and no "ean_source"; xp_job lists the actions of     *)
(* bpy.data.actions.  An action is "character" (named                      *)
(* Arm|<index>|<label>, F-curves on pose bones of the armature),           *)
(* "unnamed" (such F-curves, another name) or "foreign" (no F-curve on a   *)
(* bone of the armature); index is what _action_anim_index resolves to,    *)
(* from_ean whether it comes from the property "ean_index", frames the     *)
(* frames keyed on the location of the first bone, label the number in its *)
(* label.  The host state is the armature's active action (0: none, k:    *)
(* the k-th action of the job, 9: an action outside the job) and           *)
(* scene.frame_current.                                                    *)
(***************************************************************************)
MaxActions == 2

ExportArm ==
    [name |-> <<65, 114, 109>>,
     bones |-> <<[name |-> <<98, 95, 65>>, parent |-> 0],
                 [name |-> <<98, 95, 66>>, parent |-> 0]>>]

\* _collect_actions(actual_bone_names)
_collect_actions(actions) == SelectSeq(actions, LAMBDA act : act.kind # "foreign")

_is_character_action_name(act) == act.kind = "character"

\* _action_anim_index(act, fallback_idx): a character action has an index
\* in its name, so the fallback is never taken.
_action_anim_index(act, fallback_idx) == act.index

\* _action_sort_key of a character action; the names differ in the label.
_action_sort_key(act) == <<IF act.from_ean THEN 0 ELSE 1, act.index, act.label>>

KeyLess(a, b) ==
    \/ a[1] < b[1]
    \/ a[1] = b[1] /\ a[2] < b[2]
    \/ a[1] = b[1] /\ a[2] = b[2] /\ a[3] < b[3]

\* sorted(actions, key=_action_sort_key)
SortedActions(actions) ==
    [k \in 1..Len(actions) |->
        actions[CHOOSE i \in 1..Len(actions) :
            Cardinality({j \in 1..Len(actions) :
                \/ KeyLess(_action_sort_key(actions[j]), _action_sort_key(actions[i]))
                \/ /\ _action_sort_key(actions[j]) = _action_sort_key(actions[i])
                   /\ j < i}) = k - 1]]

\* anim_label: "L1", "L2", ...
LabelBytes(act) == <<76, 48 + act.label>>

\* The F-curves of the action as _build_animation_bytes sees them.
FramesOfAction(act) ==
    [kind |-> "char", add_dummy_rest |-> FALSE,
     frames |-> <<[pos |-> act.frames, rot |-> {}, scl |-> {}],
                  [pos |-> {}, rot |-> {}, scl |-> {}]>>]

\* animations_by_index[anim_index] = (anim_bytes, anim_label)
PutAnimation(by_index, anim_index, entry) ==
    [i \in DOMAIN by_index \cup {anim_index} |->
        IF i = anim_index THEN entry ELSE by_index[i]]

NoAnimations == [i \in {} |-> <<>>]

\* The loop of export_ean over the sorted actions from position k on
\* (exporter_char.py 621-643) with _build_animation_bytes inside.  st is
\* animations_by_index, max_index, scene.frame_current and what was raised.
\* An action without keyed frames returns b"" before any frame is set;
\* otherwise the frames are set in ascending order, the frame of the scene
\* is set back after the sampling, and the packing raises struct.error for
\* a frame that does not fit.  In the mode "sampling_raises" the evaluation
\* of the armature raises at the first frame set.
RECURSIVE ExportLoop(_, _, _, _)
ExportLoop(mode, acts, k, st) ==
    IF k > Len(acts) THEN st
    ELSE IF acts[k].frames = {} THEN ExportLoop(mode, acts, k + 1, st)
    ELSE IF mode = "sampling_raises"
         THEN [st EXCEPT !.frame = SetMin(acts[k].frames), !.raised = "RuntimeError"]
    ELSE Bind(CharAnimationBytes(FramesOfAction(acts[k])), LAMBDA anim_bytes :
         IF anim_bytes.status # "ok" THEN [st EXCEPT !.raised = anim_bytes.status]
         ELSE IF anim_bytes.value = <<>> THEN ExportLoop(mode, acts, k + 1, st)
         ELSE ExportLoop(mode, acts, k + 1,
                  [st EXCEPT
                      !.by_index = PutAnimation(@, _action_anim_index(acts[k], k - 1),
                                                [bytes |-> anim_bytes.value,
                                                 label |-> LabelBytes(acts[k])]),
                      !.max_index = Max2(@, _action_anim_index(acts[k], k - 1))]))

\* "for idx in range(animation_count)" writing the animation blocks
\* (exporter_char.py 670-680).
RECURSIVE WriteAnimationBlocks(_, _, _, _, _)
WriteAnimationBlocks(out, by_index, idx, animation_count, animation_table_offset) ==
    IF idx >= animation_count THEN out
    ELSE IF idx \notin DOMAIN by_index
         THEN WriteAnimationBlocks(out, by_index, idx + 1, animation_count,
                                   animation_table_offset)
    ELSE Bind(_align16(out), LAMBDA aligned :
            WriteAnimationBlocks(
                Poke(aligned, animation_table_offset + 4 * idx, U32(Len(aligned)))
                \o by_index[idx].bytes,
                by_index, idx + 1, animation_count, animation_table_offset))

\* "for idx in range(animation_count)" writing the names (687-696).
RECURSIVE WriteAnimationNames(_, _, _, _, _)
WriteAnimationNames(out, by_index, idx, animation_count, name_table_offset) ==
    IF idx >= animation_count THEN out
    ELSE IF idx \notin DOMAIN by_index
         THEN WriteAnimationNames(out, by_index, idx + 1, animation_count, name_table_offset)
    ELSE WriteAnimationNames(
             Poke(out, name_table_offset + 4 * idx, U32(Len(out)))
             \o by_index[idx].label \o <<0>>,
             by_index, idx + 1, animation_count, name_table_offset)

\* The file export_ean builds (651-696); animation_count > 0 here.
EanFileBytes(by_index, animation_count) ==
    Bind(export_ean_skeleton(ExportArm, 1, animation_count), LAMBDA with_skeleton :
    Bind(WriteAnimationBlocks(Poke(with_skeleton, 24, U32(Len(with_skeleton)))
                              \o Zeros(4 * animation_count),
                              by_index, 0, animation_count, Len(with_skeleton)),
         LAMBDA with_blocks :
    WriteAnimationNames(Poke(with_blocks, 28, U32(Len(with_blocks)))
                        \o Zeros(4 * animation_count),
                        by_index, 0, animation_count, Len(with_blocks))))

NoFile == <<>>

ExportResult(ok, message, file, host) ==
    [ok |-> ok, message |-> message, file |-> file, host |-> host]

\* export_ean(filepath, arm_obj) called in the host state host.  The
\* "finally" of the function puts the action back; an exception is turned
\* into the result (False, "Unexpected error ...").
export_ean(job, host) ==
    IF job.mode = "no_armature" THEN ExportResult(FALSE, "select_armature", NoFile, host)
    ELSE Bind(_collect_actions(job.actions), LAMBDA collected_actions :
         Bind(SelectSeq(collected_actions, _is_character_action_name), LAMBDA actions :
         IF collected_actions = <<>> THEN ExportResult(FALSE, "no_actions", NoFile, host)
         ELSE IF actions = <<>> THEN ExportResult(FALSE, "not_named", NoFile, host)
         ELSE Bind(ExportLoop(job.mode, SortedActions(actions), 1,
                              [by_index |-> NoAnimations, max_index |-> -1,
                               frame |-> host.frame, raised |-> "none"]),
                   LAMBDA st :
              Bind([action |-> host.action, frame |-> st.frame], LAMBDA after :
              IF st.raised # "none" THEN ExportResult(FALSE, "unexpected", NoFile, after)
              ELSE IF st.max_index < 0 THEN ExportResult(FALSE, "no_keyframes", NoFile, after)
              ELSE IF st.max_index + 1 > 65535
                   THEN ExportResult(FALSE, "unexpected", NoFile, after)
              ELSE IF job.mode = "unwritable"
                   THEN ExportResult(FALSE, "unexpected", NoFile, after)
              ELSE ExportResult(TRUE, "none",
                                EanFileBytes(st.by_index, st.max_index + 1), after)))))

\* bool(value) of a tuple: a tuple is true when it is not empty.
Truthy(value) == Len(value) > 0

\* EXPORT_OT_ean.execute: what is reported, what is returned, and the
\* result of the call of export_ean (NoCall when it is not reached).
EXPORT_OT_ean_execute(job, host) ==
    IF job.mode = "no_armature"
    THEN [report |-> "ERROR", returned |-> "CANCELLED",
          call |-> ExportResult(FALSE, "not_called", NoFile, host)]
    ELSE Bind(export_ean(job, host), LAMBDA result :
         LET ok == <<result.ok, result.message>>
         IN  IF Truthy(ok)
             THEN [report |-> "INFO", returned |-> "FINISHED", call |-> result]
             ELSE [report |-> "ERROR", returned |-> "CANCELLED", call |-> result])

\* str(anim_index) for an index below 10.
Str(n) == <<48 + n>>

\* The animation loop of _EANParser.parse (EAN.py 97-104): the decoded
\* animations, each with the index of its slot.
ReadAnimations(data) ==
    LET animation_count == Rd16(data, 18)
        animation_table_offset == RdI32(data, 24)
        animation_names_offset == RdI32(data, 28)
        slots == [i \in 1..animation_count |->
                     [index |-> i - 1,
                      anim_ptr |-> RdI32(data, animation_table_offset + 4 * (i - 1)),
                      name_ptr |-> RdI32(data, animation_names_offset + 4 * (i - 1))]]
        kept == SelectSeq(slots, LAMBDA s : s.anim_ptr # 0)
    IN  [k \in 1..Len(kept) |->
            [index |-> kept[k].index,
             name |-> IF read_cstring(data, kept[k].name_ptr) # <<>>
                      THEN read_cstring(data, kept[k].name_ptr)
                      ELSE Str(kept[k].index),
             animation |-> _parse_animation(data, kept[k].anim_ptr)]]

\* The actions of a job: the k-th action has the label k.
ActionMenu(k) ==
    {[kind |-> "character", index |-> i, from_ean |-> FALSE, frames |-> K, label |-> k] :
        i \in {-1, 0, 1, 65535}, K \in {{}, {0, 2}}}
    \cup {[kind |-> "character", index |-> 0, from_ean |-> TRUE, frames |-> {1},
           label |-> k],
          [kind |-> "character", index |-> 0, from_ean |-> FALSE, frames |-> {-1},
           label |-> k],
          [kind |-> "unnamed", index |-> 0, from_ean |-> FALSE, frames |-> {0, 2},
           label |-> k],
          [kind |-> "foreign", index |-> 0, from_ean |-> FALSE, frames |-> {},
           label |-> k]}

ActionLists ==
    UNION {{acts \in [1..n -> UNION {ActionMenu(k) : k \in 1..n}] :
               \A k \in 1..n : acts[k] \in ActionMenu(k)} : n \in 0..MaxActions}

ExportModes == {"normal", "no_armature", "unwritable", "sampling_raises"}

HostMenu == {[action |-> 0, frame |-> 7], [action |-> 1, frame |-> 1],
             [action |-> 9, frame |-> 0]}

XpNoResult == ExportResult(FALSE, "not_called", NoFile, [action |-> 0, frame |-> 0])

XpNoOperator == [report |-> "none", returned |-> "none"]

XpNotRead == [read |-> FALSE, animations |-> <<>>]

\* export_ean called from a script.
CallExportEan ==
    /\ xp_stage = "before"
    /\ \E result \in {export_ean(xp_job, xp_host)} :
          /\ xp_result' = result
          /\ xp_host' = result.host
    /\ xp_stage' = "called"
    /\ UNCHANGED <<xp_job, xp_before, xp_op, xp_parsed>>

\* The operator run from the export menu.
ExecuteOperator ==
    /\ xp_stage = "before"
    /\ \E done \in {EXPORT_OT_ean_execute(xp_job, xp_host)} :
          /\ xp_op' = [report |-> done.report, returned |-> done.returned]
          /\ xp_result' = done.call
          /\ xp_host' = done.call.host
    /\ xp_stage' = "executed"
    /\ UNCHANGED <<xp_job, xp_before, xp_parsed>>

\* read_ean_bytes on the written file.
ReadWrittenEan ==
    /\ xp_stage \in {"called", "executed"}
    /\ xp_result.ok
    /\ xp_parsed = XpNotRead
    /\ xp_parsed' = [read |-> TRUE, animations |-> ReadAnimations(xp_result.file)]
    /\ UNCHANGED <<xp_job, xp_before, xp_host, xp_result, xp_op, xp_stage>>

XpInit ==
    /\ xp_job \in [mode : ExportModes, actions : ActionLists]
    /\ xp_before \in HostMenu
    /\ xp_host = xp_before
    /\ xp_result = XpNoResult
    /\ xp_op = XpNoOperator
    /\ xp_parsed = XpNotRead
    /\ xp_stage = "before"

XpIdle ==
    /\ xp_job = [mode |-> "none", actions |-> <<>>]
    /\ xp_before = [action |-> 0, frame |-> 0]
    /\ xp_host = xp_before
    /\ xp_result = XpNoResult
    /\ xp_op = XpNoOperator
    /\ xp_parsed = XpNotRead
    /\ xp_stage = "idle"

(***************************************************************************)
(* export_esk with a source template (ESK/exporter.py).  tp_arm is the     *)
(* armature: its name, its bones (name, parent as in skel_arm, and x, the  *)
(* translation of the bone's local matrix along the X axis in quarters of  *)
(* a unit; every other part of the matrix is the identity) and the file    *)
(* its property "esk_source_path" names.  tp_result is what export_esk     *)
(* returned and wrote.                                                     *)
(***************************************************************************)
\* Bound: the number of bones of the armature (the root comes on top).
MaxTplBones == 2

\* _build_skeleton_from_armature: esk.bones, with the local translation
TplBones(arm) ==
    _bone_child_sibling_indices(
        <<[name |-> arm.name, index |-> 0, parent_index |-> -1,
           child_index |-> -1, sibling_index |-> -1, x |-> 0]>>
        \o [k \in 1..Len(arm.bones) |->
               [name |-> arm.bones[k].name, index |-> k,
                parent_index |-> arm.bones[k].parent,
                child_index |-> -1, sibling_index |-> -1, x |-> arm.bones[k].x]])

\* _pack_relative_transforms: loc and 1.0, the quaternion (x, y, z, w),
\* scale and 1.0 of bone.matrix.decompose(), 48 bytes per bone
_pack_relative_transforms(bones) ==
    ConcatAll([i \in 1..Len(bones) |->
                  PackF32(bones[i].x) \o F32Zero \o F32Zero \o F32One
                  \o F32Zero \o F32Zero \o F32Zero \o F32One
                  \o F32One \o F32One \o F32One \o F32One])

\* compute_world of _pack_absolute_transforms on the bones of an armature
\* (parents without a cycle): the translation of the bone's world matrix.
RECURSIVE compute_world(_, _)
compute_world(bones, i) ==
    IF /\ 0 <= bones[i + 1].parent_index
       /\ bones[i + 1].parent_index < Len(bones)
       /\ bones[i + 1].parent_index # i
    THEN compute_world(bones, bones[i + 1].parent_index) + bones[i + 1].x
    ELSE bones[i + 1].x

\* _pack_absolute_transforms: world.inverted_safe().transposed() row by
\* row, 64 bytes per bone; the translation is in the last row.
_pack_absolute_transforms(bones) ==
    ConcatAll([i \in 1..Len(bones) |->
                  F32One \o F32Zero \o F32Zero \o F32Zero
                  \o F32Zero \o F32One \o F32Zero \o F32Zero
                  \o F32Zero \o F32Zero \o F32One \o F32Zero
                  \o PackF32(0 - compute_world(bones, i - 1))
                  \o F32Zero \o F32Zero \o F32One])

\* _build_esk_skeleton_bytes with the transforms of the bones
EskSkeletonBytes(bones, skeleton_flag, skeleton_id) ==
    Bind(_pad_data(I16(Len(bones)) \o I16(skeleton_flag)
                   \o U32(36) \o U32(36 + 8 * Len(bones))
                   \o U32(0) \o U32(0) \o U32(0) \o U32(0)
                   \o U64(skeleton_id)
                   \o SkeletonTables(bones), 16),
         LAMBDA d :
    Bind(_pad_data(Poke(d, 12, U32(Len(d))) \o _pack_relative_transforms(bones), 16),
         LAMBDA e : Poke(e, 16, U32(Len(e))) \o _pack_absolute_transforms(bones)))

\* export_esk, the file built from scratch (lines 207-232) for an armature
\* without the esk_* properties
RebuiltEsk(bones) ==
    U32(ESK_SIGNATURE) \o U16(65534) \o U16(28) \o U16(37568) \o U16(0) \o U32(0)
    \o U32(32) \o U32(0) \o U32(0) \o U32(0)
    \o EskSkeletonBytes(bones, 1, 0)

NoLayout == [ok |-> FALSE, bone_count |-> 0, rel_off |-> 0, abs_off |-> 0, names |-> <<>>]

\* data.find(b"\0", name_abs) # -1
HasNul(data, from) == \E e \in from..(Len(data) - 1) : data[e + 1] = 0

_read_skeleton_layout(data) ==
    IF Len(data) < 32 \/ Rd32(data, 0) # ESK_SIGNATURE THEN NoLayout
    ELSE Bind(Rd32(data, 16), LAMBDA skel_off :
         IF skel_off <= 0 \/ skel_off + 36 > Len(data) THEN NoLayout
         ELSE Bind(RdI16(data, skel_off), LAMBDA bone_count :
              Bind(skel_off + Rd32(data, skel_off + 4), LAMBDA idx_off :
              Bind(skel_off + Rd32(data, skel_off + 8), LAMBDA name_off :
              IF bone_count < 0 THEN NoLayout
              ELSE IF \/ idx_off + bone_count * 8 > Len(data)
                      \/ name_off + bone_count * 4 > Len(data)
                   THEN NoLayout
              ELSE IF \E i \in 0..(bone_count - 1) :
                         \/ skel_off + Rd32(data, name_off + i * 4) >= Len(data)
                         \/ ~HasNul(data, skel_off + Rd32(data, name_off + i * 4))
                   THEN NoLayout
              ELSE [ok |-> TRUE,
                    bone_count |-> bone_count,
                    rel_off |-> skel_off + Rd32(data, skel_off + 12),
                    abs_off |-> IF Rd32(data, skel_off + 16) # 0
                                THEN skel_off + Rd32(data, skel_off + 16) ELSE 0,
                    names |-> [i \in 1..bone_count |->
                                  read_cstring(data, skel_off
                                      + Rd32(data, name_off + (i - 1) * 4))]]))))

\* out[a : a + len(blob)] = blob on a bytearray: the slice is cut to the
\* buffer, so a blob reaching past the end makes the buffer longer.
SliceAssign(out, a, blob) ==
    SubSeq(out, 1, Min2(a, Len(out))) \o blob
    \o SubSeq(out, Min2(a + Len(blob), Len(out)) + 1, Len(out))

NoTemplate == [ok |-> FALSE, out |-> <<>>]

\* A faulty variant of _export_using_source_template without the two tests
\* that the tables lie inside the source.
TemplateWithoutBoundsTest(source, bones) ==
    IF source.path = <<>> \/ ~source.is_file THEN NoTemplate
    ELSE Bind(_read_skeleton_layout(source.data), LAMBDA layout :
         IF ~layout.ok THEN NoTemplate
         ELSE IF layout.bone_count # Len(bones) THEN NoTemplate
         ELSE IF layout.names # [i \in 1..Len(bones) |-> bones[i].name] THEN NoTemplate
         ELSE Bind(SliceAssign(source.data, layout.rel_off,
                               _pack_relative_transforms(bones)),
                   LAMBDA out :
                       [ok |-> TRUE,
                        out |-> IF layout.abs_off # 0
                                THEN SliceAssign(out, layout.abs_off,
                                                 _pack_absolute_transforms(bones))
                                ELSE out]))

\* _export_using_source_template(filepath, source_path, bones), called when
\* source_path is not empty: whether it wrote the file, and the file.
_export_using_source_template(source, bones) ==
    IF source.path = <<>> \/ ~source.is_file THEN NoTemplate
    ELSE Bind(_read_skeleton_layout(source.data), LAMBDA layout :
         IF ~layout.ok THEN NoTemplate
         ELSE IF layout.bone_count # Len(bones) THEN NoTemplate
         ELSE IF layout.names # [i \in 1..Len(bones) |-> bones[i].name] THEN NoTemplate
         ELSE IF layout.rel_off + 48 * Len(bones) > Len(source.data) THEN NoTemplate
         ELSE IF /\ layout.abs_off # 0
                 /\ layout.abs_off + 64 * Len(bones) > Len(source.data)
              THEN NoTemplate
         ELSE Bind(SliceAssign(source.data, layout.rel_off,
                               _pack_relative_transforms(bones)),
                   LAMBDA out :
                       [ok |-> TRUE,
                        out |-> IF layout.abs_off # 0
                                THEN SliceAssign(out, layout.abs_off,
                                                 _pack_absolute_transforms(bones))
                                ELSE out]))

\* export_esk(filepath, arm_obj) on an armature: the file written and
\* whether it came from the source template.
export_esk_file(arm) ==
    Bind(TplBones(arm), LAMBDA bones :
    Bind(_export_using_source_template(arm.source, bones), LAMBDA tpl :
        IF tpl.ok THEN [made |-> TRUE, template |-> TRUE, out |-> tpl.out]
        ELSE [made |-> TRUE, template |-> FALSE, out |-> RebuiltEsk(bones)]))

\* The translations of the menu: 0.0 and -1.5
TplMoves == {0, -6}

\* The name of the k-th bone: "B1", "B2", ...
TplNameOf(k) == <<66, 48 + k>>

\* list(arm_obj.data.bones) with a local translation for each bone
TplBoneLists(n) ==
    {bs \in [1..n -> [name : {TplNameOf(k) : k \in 1..n}, parent : 0..n, x : TplMoves]] :
        /\ \A i \in 1..n : bs[i].name = TplNameOf(i)
        /\ \A i \in 1..n : ReachesTop(bs, i, n)}

\* The skeletons a source file may hold for an armature: the armature's own
\* bones at rest, the same bones in reverse order, all but the last, and
\* the bones with the first one under another name ("Zed").
SourceSkeletons(arm) ==
    LET rest == [k \in 1..Len(arm.bones) |-> [arm.bones[k] EXCEPT !.x = 0]]
    IN  {rest}
        \cup {[k \in 1..Len(rest) |->
                  [name |-> rest[Len(rest) + 1 - k].name, parent |-> 0, x |-> 0]]}
        \cup {SubSeq(rest, 1, Len(rest) - 1)}
        \cup {[k \in 1..Len(rest) |->
                  IF k = 1 THEN [rest[k] EXCEPT !.name = <<90, 101, 100>>] ELSE rest[k]]}

\* The shapes of a source file: as an export writes it; with eight bytes of
\* further data after the tables; without an absolute-matrix table (offset
\* 0, the bytes that follow the relative table are other data); cut inside
\* the absolute or the relative table; with another signature.
SourceShapes == {"plain", "tail", "no_abs", "cut_abs", "cut_rel", "bad_signature"}

SourceData(name, skeleton, shape) ==
    Bind(RebuiltEsk(TplBones([name |-> name, bones |-> skeleton])), LAMBDA d :
        CASE shape = "plain" -> d
          [] shape = "tail" -> d \o <<204, 204, 204, 204, 204, 204, 204, 204>>
          [] shape = "no_abs" -> Poke(d, 32 + 16, U32(0))
          [] shape = "cut_abs" -> SubSeq(d, 1, Len(d) - 4)
          [] shape = "cut_rel" ->
                SubSeq(d, 1, Rd32(d, 32 + 12) + 32 + 48 * (Len(skeleton) + 1) - 4)
          [] shape = "bad_signature" -> Poke(d, 0, <<35, 69, 65, 78>>))

\* The property "esk_source_path": not set, the path of a file that is
\* gone, or the path of a source file.
SourcesOf(name, bones) ==
    {[path |-> <<>>, is_file |-> FALSE, data |-> <<>>],
     [path |-> <<47, 97>>, is_file |-> FALSE, data |-> <<>>]}
    \cup {[path |-> <<47, 97>>, is_file |-> TRUE, data |-> SourceData(name, sk, shape)] :
             sk \in SourceSkeletons([name |-> name, bones |-> bones]),
             shape \in SourceShapes}

TplArmatures ==
    UNION {{[name |-> <<65>>, bones |-> bs, source |-> src] : src \in SourcesOf(<<65>>, bs)} :
              bs \in UNION {TplBoneLists(n) : n \in 0..MaxTplBones}}

TplNoResult == [made |-> FALSE, template |-> FALSE, out |-> <<>>]

TplNoLayout == [read |-> FALSE, layout |-> NoLayout]

\* export_esk
ExportEskFile ==
    /\ ~tp_result.made
    /\ tp_result' = export_esk_file(tp_arm)
    /\ UNCHANGED <<tp_arm, tp_layout>>

\* _read_skeleton_layout on the file export_esk wrote
ReadWrittenLayout ==
    /\ tp_result.made
    /\ ~tp_layout.read
    /\ tp_layout' = [read |-> TRUE, layout |-> _read_skeleton_layout(tp_result.out)]
    /\ UNCHANGED <<tp_arm, tp_result>>

TplInit ==
    /\ tp_arm \in TplArmatures
    /\ tp_result = TplNoResult
    /\ tp_layout = TplNoLayout

TplIdle ==
    /\ tp_arm = [name |-> <<>>, bones |-> <<>>, source |-> [path |-> <<>>, is_file |-> FALSE, data |-> <<>>]]
    /\ tp_result = TplNoResult
    /\ tp_layout = TplNoLayout

(***************************************************************************)
(* EMD exporter: the vertex de-duplication of                              *)
(* _collect_vertex_data_for_material on a mesh with a UV layer, a second   *)
(* UV layer and a colour attribute of domain CORNER.  A corner (loop) has  *)
(* the position and the vertex groups of its vertex and its own normal,    *)
(* UVs (in quarters) and colour; dd_log is, corner by corner, the          *)
(* EMD_Vertex built for it and the index appended for it.                  *)
(***************************************************************************)
\* Bound: the number of triangles of the mesh.
MaxLoopTris == 2

\* vtx.color from color_layer.data[loop_idx].color
CollectedColor(col) == <<col[1], col[2], col[3], IF Len(col) > 3 THEN col[4] ELSE 1>>

\* key = (pos, normal, uv, uv2, bone_ids, bone_weights)
LoopKey(vtx) == <<vtx.pos, vtx.normal, vtx.uv, vtx.uv2, vtx.bone_ids, vtx.bone_weights>>

\* vertex_lookup.get(key): the 0-based index stored under the key, -1 when
\* the key is not in the dictionary
LoopLookup(wanted, verts) ==
    IF \E i \in 1..Len(verts) : LoopKey(verts[i]) = wanted
    THEN (CHOOSE i \in 1..Len(verts) :
            /\ LoopKey(verts[i]) = wanted
            /\ \A j \in 1..(i - 1) : LoopKey(verts[j]) # wanted) - 1
    ELSE -1

\* One pass of "for vtx, influences in tri_vertices" (lines 179-219); st is
\* [palette, vertices, indices, log].
EmitLoop(tv, st) ==
    Bind(CornerIds(tv.influences, [palette |-> st.palette, ids |-> <<>>]), LAMBDA r :
    Bind([pos |-> tv.pos, normal |-> tv.normal, uv |-> tv.uv, uv2 |-> tv.uv2,
          color |-> tv.color,
          bone_ids |-> StoredIds(r.ids, [i \in 1..4 |-> tv.influences[i].weight]),
          bone_weights |-> StoredWeights([i \in 1..4 |-> tv.influences[i].weight])],
         LAMBDA vtx :
    Bind(LoopLookup(LoopKey(vtx), st.vertices), LAMBDA found :
        [palette |-> r.palette,
         vertices |-> IF found >= 0 THEN st.vertices ELSE Append(st.vertices, vtx),
         indices |-> Append(st.indices,
                            IF found >= 0 THEN found ELSE Len(st.vertices)),
         log |-> Append(st.log,
                        [vtx |-> vtx,
                         index |-> IF found >= 0 THEN found ELSE Len(st.vertices)])])))

RECURSIVE EmitLoops(_, _)
EmitLoops(tri_vertices, st) ==
    IF tri_vertices = <<>> THEN st
    ELSE Bind(EmitLoop(Head(tri_vertices), st),
              LAMBDA st2 : EmitLoops(Tail(tri_vertices), st2))

\* One iteration of "for tri in mesh.loop_triangles" (lines 125-219) on
\* st = [vertices, triangle_groups, log]
_collect_loops(tri, st) ==
    Bind([c \in 1..3 |-> [pos |-> tri[c].pos,
                          normal |-> tri[c].normal,
                          uv |-> CollectedUv(tri[c].uv),
                          uv2 |-> CollectedUv(tri[c].uv2),
                          color |-> CollectedColor(tri[c].color),
                          influences |-> gather_influences(tri[c].groups)]],
         LAMBDA tri_vertices :
    Bind(TriBonesOrdered(tri_vertices[1].influences \o tri_vertices[2].influences
                         \o tri_vertices[3].influences),
         LAMBDA tri_bones_ordered :
    Bind(_get_or_create_triangle_group(tri_bones_ordered, st.triangle_groups),
         LAMBDA g :
    Bind(EmitLoops(tri_vertices,
                   [palette |-> g.groups[g.at].bone_names,
                    vertices |-> st.vertices,
                    indices |-> g.groups[g.at].indices,
                    log |-> st.log]),
         LAMBDA e :
        [vertices |-> e.vertices,
         triangle_groups |-> [g.groups EXCEPT ![g.at] =
                                 [indices |-> e.indices, bone_names |-> e.palette]],
         log |-> e.log]))))

\* The corner of the vertex at position p with everything at its base
\* value: normal along Z, both UVs at (0.25, 0.5), white, weight 1 on
\* bone 1.
BaseLoop(p) ==
    [pos |-> <<p, 0, 0>>, normal |-> <<0, 0, 1>>, uv |-> <<1, 2>>, uv2 |-> <<1, 2>>,
     color |-> <<1, 1, 1, 1>>, groups |-> <<[name |-> 1, weight |-> 1]>>]

\* The channels in which a corner may differ from the base corner.
LoopChannels == {"none", "pos", "normal", "uv", "uv2", "color", "alpha", "bone", "weight"}

VariedLoop(p, ch) ==
    CASE ch = "none" -> BaseLoop(p)
      [] ch = "pos" -> [BaseLoop(p) EXCEPT !.pos = <<p, 1, 0>>]
      [] ch = "normal" -> [BaseLoop(p) EXCEPT !.normal = <<1, 0, 0>>]
      [] ch = "uv" -> [BaseLoop(p) EXCEPT !.uv = <<3, 2>>]
      [] ch = "uv2" -> [BaseLoop(p) EXCEPT !.uv2 = <<1, 0>>]
      [] ch = "color" -> [BaseLoop(p) EXCEPT !.color = <<1, 0, 0, 1>>]
      [] ch = "alpha" -> [BaseLoop(p) EXCEPT !.color = <<1, 1, 1, 0>>]
      [] ch = "bone" -> [BaseLoop(p) EXCEPT !.groups = <<[name |-> 2, weight |-> 1]>>]
      [] ch = "weight" -> [BaseLoop(p) EXCEPT !.groups = <<[name |-> 1, weight |-> 1],
                                                           [name |-> 2, weight |-> 1]>>]

\* The triangles: a fan around the vertex at position 1, whose corner
\* differs from the base corner in at most one channel.
LoopTriMenu ==
    {<<VariedLoop(1, ch), BaseLoop(k + 1), BaseLoop(k + 2)>> : k \in {1, 2}, ch \in LoopChannels}

\* The loop "for tri in mesh.loop_triangles", one triangle per step
CollectLoops ==
    /\ Len(dd_log) < 3 * MaxLoopTris
    /\ \E tri \in LoopTriMenu :
       \E r \in {_collect_loops(tri, [vertices |-> dd_vertices,
                                      triangle_groups |-> dd_groups,
                                      log |-> dd_log])} :
          /\ dd_vertices' = r.vertices
          /\ dd_groups' = r.triangle_groups
          /\ dd_log' = r.log

DdInit ==
    /\ dd_vertices = <<>>
    /\ dd_groups = <<>>
    /\ dd_log = <<>>

DdIdle ==
    /\ dd_vertices = <<>>
    /\ dd_groups = <<>>
    /\ dd_log = <<>>

(***************************************************************************)
(* The recursion over parent indices: compute_world of build_armature      *)
(* (ESK.py), compute_world of _pack_absolute_transforms (ESK/exporter.py)  *)
(* and compute_abs of _build_rest_from_esk (EAN/importer.py), one call or  *)
(* return per step.  rc_bones are the bones of the skeleton as a decoder   *)
(* returns them (bone k at position k, any parent index the file holds);   *)
(* rc_stack is the chain of active calls, outermost first, each with the   *)
(* bone it was called for and whether it waits for its parent; rc_memo is  *)
(* the keys of the dictionary of computed matrices; rc_count the number    *)
(* of times the matrix of each bone was computed and stored.               *)
(***************************************************************************)
\* Bound: the number of bones of the skeleton.
MaxRecBones == 3

\* Bound: the depth at which the interpreter raises RecursionError
\* (sys.getrecursionlimit(), 1000 by default).
RecursionLimit == 6

RecFunctions == {"build_armature", "_pack_absolute_transforms", "_build_rest_from_esk"}

\* The key of the dictionary: bone_data.index in world_mats, bone.name in
\* abs_mats.
MemoKey(fn, bones, b) == IF fn = "_build_rest_from_esk" THEN bones[b + 1].name ELSE b

\* The test before the recursive call.  compute_world: the parent index is
\* in range and the parent is not the bone itself; compute_abs: the parent
\* index is in range.
CallsParent(fn, bones, b) ==
    /\ 0 <= bones[b + 1].parent_index
    /\ bones[b + 1].parent_index < Len(bones)
    /\ fn # "_build_rest_from_esk" => bones[b + 1].parent_index # b

\* The bones the loop after the definition calls the function for:
\* esk.bones[1:] in build_armature (bones without "thumb" in their name),
\* every bone in the other two.
LoopBones(fn, bones) ==
    IF fn = "build_armature" THEN 1..(Len(bones) - 1) ELSE 0..(Len(bones) - 1)

\* "for bone in bones: compute_world(bone)": the call for the next bone of
\* the loop, or the end of the loop.
LoopCall ==
    /\ rc_status = "running"
    /\ rc_stack = <<>>
    /\ IF rc_next \in LoopBones(rc_fn, rc_bones)
       THEN /\ rc_stack' = <<[bone |-> rc_next, waits |-> FALSE]>>
            /\ rc_next' = rc_next + 1
            /\ UNCHANGED rc_status
       ELSE /\ rc_status' = "returned"
            /\ UNCHANGED <<rc_stack, rc_next>>
    /\ UNCHANGED <<rc_fn, rc_bones, rc_memo, rc_count>>

\* The call at the top of the chain starts: it returns the stored matrix,
\* or calls itself for the parent, or computes and stores its matrix.
EnterCompute ==
    /\ rc_status = "running"
    /\ rc_stack # <<>>
    /\ ~rc_stack[Len(rc_stack)].waits
    /\ \E b \in {rc_stack[Len(rc_stack)].bone} :
          IF MemoKey(rc_fn, rc_bones, b) \in rc_memo
          THEN /\ rc_stack' = SubSeq(rc_stack, 1, Len(rc_stack) - 1)
               /\ UNCHANGED <<rc_memo, rc_count, rc_status>>
          ELSE IF CallsParent(rc_fn, rc_bones, b)
          THEN IF Len(rc_stack) + 1 > RecursionLimit
               THEN /\ rc_status' = "RecursionError"
                    /\ rc_stack' = <<>>
                    /\ UNCHANGED <<rc_memo, rc_count>>
               ELSE /\ rc_stack' = Append([rc_stack EXCEPT ![Len(rc_stack)].waits = TRUE],
                                          [bone |-> rc_bones[b + 1].parent_index,
                                           waits |-> FALSE])
                    /\ UNCHANGED <<rc_memo, rc_count, rc_status>>
          ELSE /\ rc_memo' = rc_memo \cup {MemoKey(rc_fn, rc_bones, b)}
               /\ rc_count' = [rc_count EXCEPT ![b] = @ + 1]
               /\ rc_stack' = SubSeq(rc_stack, 1, Len(rc_stack) - 1)
               /\ UNCHANGED rc_status
    /\ UNCHANGED <<rc_fn, rc_bones, rc_next>>

\* The call for the parent has returned: the matrix is the parent's times
\* the bone's own, it is stored and returned.
ReturnCompute ==
    /\ rc_status = "running"
    /\ rc_stack # <<>>
    /\ rc_stack[Len(rc_stack)].waits
    /\ \E b \in {rc_stack[Len(rc_stack)].bone} :
          /\ rc_memo' = rc_memo \cup {MemoKey(rc_fn, rc_bones, b)}
          /\ rc_count' = [rc_count EXCEPT ![b] = @ + 1]
    /\ rc_stack' = SubSeq(rc_stack, 1, Len(rc_stack) - 1)
    /\ UNCHANGED <<rc_fn, rc_bones, rc_next, rc_status>>

\* The names of the bones: "A" and "B"
RecNames == {<<65>>, <<66>>}

\* The skeletons the decoders return: every parent index of the file is
\* taken as it is, -1 (no parent), the index of a bone, or an index past
\* the last bone.
RecSkeletons ==
    UNION {[1..n -> [name : RecNames, parent_index : -1..n]] : n \in 1..MaxRecBones}

\* The skeletons _build_skeleton_from_armature returns, which are what
\* _pack_absolute_transforms is called with: the root without a parent,
\* every other bone under the root or under a bone of the armature, and no
\* cycle.
RECURSIVE UnderRoot(_, _, _)
UnderRoot(bones, b, fuel) ==
    \/ b = 0
    \/ fuel > 0 /\ bones[b + 1].parent_index \in 0..(Len(bones) - 1)
                /\ UnderRoot(bones, bones[b + 1].parent_index, fuel - 1)

BuiltSkeletons ==
    {bones \in RecSkeletons :
        /\ bones[1].parent_index = -1
        /\ \A b \in 1..(Len(bones) - 1) : UnderRoot(bones, b, Len(bones))}

RecInit ==
    /\ rc_fn \in RecFunctions
    /\ rc_bones \in IF rc_fn = "_pack_absolute_transforms" THEN BuiltSkeletons ELSE RecSkeletons
    /\ rc_stack = <<>>
    /\ rc_memo = {}
    /\ rc_count = [b \in 0..(Len(rc_bones) - 1) |-> 0]
    /\ rc_next = IF rc_fn = "build_armature" THEN 1 ELSE 0
    /\ rc_status = "running"

RecIdle ==
    /\ rc_fn = "none"
    /\ rc_bones = <<>>
    /\ rc_stack = <<>>
    /\ rc_memo = {}
    /\ rc_count = <<>>
    /\ rc_next = 0
    /\ rc_status = "none"

(***************************************************************************)
(* Specifications: one per part of the codec layer.                        *)
(***************************************************************************)
InitPalette ==
    /\ PaletteInit
    /\ VertexIdle
    /\ AnimIdle
    /\ EmdIdle
    /\ SkelIdle
    /\ DecIdle
    /\ InterpIdle
    /\ BcsIdle
    /\ LinkIdle
    /\ TreeIdle
    /\ WidthIdle
    /\ KfIdle
    /\ UvIdle
    /\ XpIdle
    /\ TplIdle
    /\ DdIdle
    /\ RecIdle

NextPalette == CollectStep /\ UNCHANGED <<vertexVars, animVars, emdVars, skelVars, decVars, interpVars, bcsVars, linkVars, treeVars, widthVars, kfVars, uvVars, xpVars, tplVars, ddVars, recVars>>

SpecPalette == InitPalette /\ [][NextPalette]_vars

InitVertex ==
    /\ VertexInit
    /\ PaletteInit
    /\ AnimIdle
    /\ EmdIdle
    /\ SkelIdle
    /\ DecIdle
    /\ InterpIdle
    /\ BcsIdle
    /\ LinkIdle
    /\ TreeIdle
    /\ WidthIdle
    /\ KfIdle
    /\ UvIdle
    /\ XpIdle
    /\ TplIdle
    /\ DdIdle
    /\ RecIdle

OthersVertex == <<paletteVars, animVars, emdVars, skelVars, decVars, interpVars, bcsVars, linkVars, treeVars, widthVars, kfVars, uvVars, xpVars, tplVars, ddVars, recVars>>

NextVertex ==
    \/ ParseSubmeshVertices /\ UNCHANGED OthersVertex
    \/ WriteSubmeshVertices /\ UNCHANGED OthersVertex

SpecVertex == InitVertex /\ [][NextVertex]_vars

InitAnim ==
    /\ AnimInit
    /\ PaletteInit
    /\ VertexIdle
    /\ EmdIdle
    /\ SkelIdle
    /\ DecIdle
    /\ InterpIdle
    /\ BcsIdle
    /\ LinkIdle
    /\ TreeIdle
    /\ WidthIdle
    /\ KfIdle
    /\ UvIdle
    /\ XpIdle
    /\ TplIdle
    /\ DdIdle
    /\ RecIdle

OthersAnim == <<paletteVars, vertexVars, emdVars, skelVars, decVars, interpVars, bcsVars, linkVars, treeVars, widthVars, kfVars, uvVars, xpVars, tplVars, ddVars, recVars>>

NextAnim ==
    \/ BuildCharAnimation /\ UNCHANGED OthersAnim
    \/ BuildCamAnimation /\ UNCHANGED OthersAnim

SpecAnim == InitAnim /\ [][NextAnim]_vars

InitEmd ==
    /\ EmdInit
    /\ PaletteInit
    /\ VertexIdle
    /\ AnimIdle
    /\ SkelIdle
    /\ DecIdle
    /\ InterpIdle
    /\ BcsIdle
    /\ LinkIdle
    /\ TreeIdle
    /\ WidthIdle
    /\ KfIdle
    /\ UvIdle
    /\ XpIdle
    /\ TplIdle
    /\ DdIdle
    /\ RecIdle

OthersEmd == <<paletteVars, vertexVars, animVars, skelVars, decVars, interpVars, bcsVars, linkVars, treeVars, widthVars, kfVars, uvVars, xpVars, tplVars, ddVars, recVars>>

NextEmd ==
    \/ WriteEmd /\ UNCHANGED OthersEmd
    \/ ParseEmd /\ UNCHANGED OthersEmd

SpecEmd == InitEmd /\ [][NextEmd]_vars

InitSkel ==
    /\ SkelInit
    /\ PaletteInit
    /\ VertexIdle
    /\ AnimIdle
    /\ EmdIdle
    /\ DecIdle
    /\ InterpIdle
    /\ BcsIdle
    /\ LinkIdle
    /\ TreeIdle
    /\ WidthIdle
    /\ KfIdle
    /\ UvIdle
    /\ XpIdle
    /\ TplIdle
    /\ DdIdle
    /\ RecIdle

OthersSkel == <<paletteVars, vertexVars, animVars, emdVars, decVars, interpVars, bcsVars, linkVars, treeVars, widthVars, kfVars, uvVars, xpVars, tplVars, ddVars, recVars>>

NextSkel ==
    \/ ExportEsk /\ UNCHANGED OthersSkel
    \/ ParseEsk /\ UNCHANGED OthersSkel
    \/ ExportEanSkeleton /\ UNCHANGED OthersSkel
    \/ ParseEanSkeleton /\ UNCHANGED OthersSkel

SpecSkel == InitSkel /\ [][NextSkel]_vars

InitDec ==
    /\ DecInit
    /\ PaletteInit
    /\ VertexIdle
    /\ AnimIdle
    /\ EmdIdle
    /\ SkelIdle
    /\ InterpIdle
    /\ BcsIdle
    /\ LinkIdle
    /\ TreeIdle
    /\ WidthIdle
    /\ KfIdle
    /\ UvIdle
    /\ XpIdle
    /\ TplIdle
    /\ DdIdle
    /\ RecIdle

OthersDec == <<paletteVars, vertexVars, animVars, emdVars, skelVars, interpVars, bcsVars, linkVars, treeVars, widthVars, kfVars, uvVars, xpVars, tplVars, ddVars, recVars>>

NextDec ==
    \/ ParseEmdFile /\ UNCHANGED OthersDec
    \/ ParseEskFile /\ UNCHANGED OthersDec
    \/ ParseEmmFile /\ UNCHANGED OthersDec
    \/ ReadEmbFile /\ UNCHANGED OthersDec
    \/ ReadEanFile /\ UNCHANGED OthersDec
    \/ ReadBcsFile /\ UNCHANGED OthersDec

SpecDec == InitDec /\ [][NextDec]_vars

InitInterp ==
    /\ InterpInit
    /\ PaletteInit
    /\ VertexIdle
    /\ AnimIdle
    /\ EmdIdle
    /\ SkelIdle
    /\ DecIdle
    /\ BcsIdle
    /\ LinkIdle
    /\ TreeIdle
    /\ WidthIdle
    /\ KfIdle
    /\ UvIdle
    /\ XpIdle
    /\ TplIdle
    /\ DdIdle
    /\ RecIdle

NextInterp == SampleComponent /\ UNCHANGED <<paletteVars, vertexVars, animVars, emdVars, skelVars, decVars, bcsVars, linkVars, treeVars, widthVars, kfVars, uvVars, xpVars, tplVars, ddVars, recVars>>

SpecInterp == InitInterp /\ [][NextInterp]_vars

InitBcs ==
    /\ BcsInit
    /\ PaletteInit
    /\ VertexIdle
    /\ AnimIdle
    /\ EmdIdle
    /\ SkelIdle
    /\ DecIdle
    /\ InterpIdle
    /\ LinkIdle
    /\ TreeIdle
    /\ WidthIdle
    /\ KfIdle
    /\ UvIdle
    /\ XpIdle
    /\ TplIdle
    /\ DdIdle
    /\ RecIdle

NextBcs == ReadBcsParts /\ UNCHANGED <<paletteVars, vertexVars, animVars, emdVars, skelVars, decVars, interpVars, linkVars, treeVars, widthVars, kfVars, uvVars, xpVars, tplVars, ddVars, recVars>>

SpecBcs == InitBcs /\ [][NextBcs]_vars

InitLink ==
    /\ LinkInit
    /\ PaletteInit
    /\ VertexIdle
    /\ AnimIdle
    /\ EmdIdle
    /\ SkelIdle
    /\ DecIdle
    /\ InterpIdle
    /\ BcsIdle
    /\ TreeIdle
    /\ WidthIdle
    /\ KfIdle
    /\ UvIdle
    /\ XpIdle
    /\ TplIdle
    /\ DdIdle
    /\ RecIdle

NextLink == DeriveLinks /\ UNCHANGED <<paletteVars, vertexVars, animVars, emdVars, skelVars, decVars, interpVars, bcsVars, treeVars, widthVars, kfVars, uvVars, xpVars, tplVars, ddVars, recVars>>

SpecLink == InitLink /\ [][NextLink]_vars

InitTree ==
    /\ TreeInit
    /\ PaletteInit
    /\ VertexIdle
    /\ AnimIdle
    /\ EmdIdle
    /\ SkelIdle
    /\ DecIdle
    /\ InterpIdle
    /\ BcsIdle
    /\ LinkIdle
    /\ WidthIdle
    /\ KfIdle
    /\ UvIdle
    /\ XpIdle
    /\ TplIdle
    /\ DdIdle
    /\ RecIdle

OthersTree == <<paletteVars, vertexVars, animVars, emdVars, skelVars, decVars, interpVars, bcsVars, linkVars, widthVars, kfVars, uvVars, xpVars, tplVars, ddVars, recVars>>

NextTree ==
    \/ WriteTree /\ UNCHANGED OthersTree
    \/ ParseTree /\ UNCHANGED OthersTree
    \/ ParseTreeWithZeroEntry /\ UNCHANGED OthersTree

SpecTree == InitTree /\ [][NextTree]_vars

InitWidth ==
    /\ WidthInit
    /\ PaletteInit
    /\ VertexIdle
    /\ AnimIdle
    /\ EmdIdle
    /\ SkelIdle
    /\ DecIdle
    /\ InterpIdle
    /\ BcsIdle
    /\ LinkIdle
    /\ TreeIdle
    /\ KfIdle
    /\ UvIdle
    /\ XpIdle
    /\ TplIdle
    /\ DdIdle
    /\ RecIdle

OthersWidth == <<paletteVars, vertexVars, animVars, emdVars, skelVars, decVars, interpVars, bcsVars, linkVars, treeVars, kfVars, uvVars, xpVars, tplVars, ddVars, recVars>>

NextWidth ==
    \/ WriteIndices /\ UNCHANGED OthersWidth
    \/ ReadIndices /\ UNCHANGED OthersWidth

SpecWidth == InitWidth /\ [][NextWidth]_vars

InitKf ==
    /\ KfInit
    /\ PaletteInit
    /\ VertexIdle
    /\ AnimIdle
    /\ EmdIdle
    /\ SkelIdle
    /\ DecIdle
    /\ InterpIdle
    /\ BcsIdle
    /\ LinkIdle
    /\ TreeIdle
    /\ WidthIdle
    /\ UvIdle
    /\ XpIdle
    /\ TplIdle
    /\ DdIdle
    /\ RecIdle

OthersKf == <<paletteVars, vertexVars, animVars, emdVars, skelVars, decVars, interpVars, bcsVars, linkVars, treeVars, widthVars, uvVars, xpVars, tplVars, ddVars, recVars>>

NextKf ==
    \/ WriteCharFrames /\ UNCHANGED OthersKf
    \/ WriteCamFrames /\ UNCHANGED OthersKf
    \/ ReadFrames /\ UNCHANGED OthersKf
    \/ ReadWithTypeByte /\ UNCHANGED OthersKf

SpecKf == InitKf /\ [][NextKf]_vars

InitUv ==
    /\ UvInit
    /\ PaletteInit
    /\ VertexIdle
    /\ AnimIdle
    /\ EmdIdle
    /\ SkelIdle
    /\ DecIdle
    /\ InterpIdle
    /\ BcsIdle
    /\ LinkIdle
    /\ TreeIdle
    /\ WidthIdle
    /\ KfIdle
    /\ XpIdle
    /\ TplIdle
    /\ DdIdle
    /\ RecIdle

OthersUv == <<paletteVars, vertexVars, animVars, emdVars, skelVars, decVars, interpVars, bcsVars, linkVars, treeVars, widthVars, kfVars, xpVars, tplVars, ddVars, recVars>>

NextUv ==
    \/ ReadUv /\ UNCHANGED OthersUv
    \/ ImportUv /\ UNCHANGED OthersUv
    \/ CollectUv /\ UNCHANGED OthersUv
    \/ WriteCollectedUv /\ UNCHANGED OthersUv
    \/ WriteDecodedUv /\ UNCHANGED OthersUv

SpecUv == InitUv /\ [][NextUv]_vars

InitXp ==
    /\ XpInit
    /\ PaletteInit
    /\ VertexIdle
    /\ AnimIdle
    /\ EmdIdle
    /\ SkelIdle
    /\ DecIdle
    /\ InterpIdle
    /\ BcsIdle
    /\ LinkIdle
    /\ TreeIdle
    /\ WidthIdle
    /\ KfIdle
    /\ UvIdle
    /\ TplIdle
    /\ DdIdle
    /\ RecIdle

OthersXp == <<paletteVars, vertexVars, animVars, emdVars, skelVars, decVars, interpVars, bcsVars, linkVars, treeVars, widthVars, kfVars, uvVars, tplVars, ddVars, recVars>>

NextXp ==
    \/ CallExportEan /\ UNCHANGED OthersXp
    \/ ExecuteOperator /\ UNCHANGED OthersXp
    \/ ReadWrittenEan /\ UNCHANGED OthersXp

SpecXp == InitXp /\ [][NextXp]_vars

InitTpl ==
    /\ TplInit
    /\ PaletteInit
    /\ VertexIdle
    /\ AnimIdle
    /\ EmdIdle
    /\ SkelIdle
    /\ DecIdle
    /\ InterpIdle
    /\ BcsIdle
    /\ LinkIdle
    /\ TreeIdle
    /\ WidthIdle
    /\ KfIdle
    /\ UvIdle
    /\ XpIdle
    /\ DdIdle
    /\ RecIdle

OthersTpl == <<paletteVars, vertexVars, animVars, emdVars, skelVars, decVars, interpVars, bcsVars, linkVars, treeVars, widthVars, kfVars, uvVars, xpVars, ddVars, recVars>>

NextTpl ==
    \/ ExportEskFile /\ UNCHANGED OthersTpl
    \/ ReadWrittenLayout /\ UNCHANGED OthersTpl

SpecTpl == InitTpl /\ [][NextTpl]_vars

InitDd ==
    /\ DdInit
    /\ PaletteInit
    /\ VertexIdle
    /\ AnimIdle
    /\ EmdIdle
    /\ SkelIdle
    /\ DecIdle
    /\ InterpIdle
    /\ BcsIdle
    /\ LinkIdle
    /\ TreeIdle
    /\ WidthIdle
    /\ KfIdle
    /\ UvIdle
    /\ XpIdle
    /\ TplIdle
    /\ RecIdle

NextDd == CollectLoops /\ UNCHANGED <<paletteVars, vertexVars, animVars, emdVars, skelVars, decVars, interpVars, bcsVars, linkVars, treeVars, widthVars, kfVars, uvVars, xpVars, tplVars, recVars>>

SpecDd == InitDd /\ [][NextDd]_vars

InitRec ==
    /\ RecInit
    /\ PaletteInit
    /\ VertexIdle
    /\ AnimIdle
    /\ EmdIdle
    /\ SkelIdle
    /\ DecIdle
    /\ InterpIdle
    /\ BcsIdle
    /\ LinkIdle
    /\ TreeIdle
    /\ WidthIdle
    /\ KfIdle
    /\ UvIdle
    /\ XpIdle
    /\ TplIdle
    /\ DdIdle

OthersRec == <<paletteVars, vertexVars, animVars, emdVars, skelVars, decVars, interpVars, bcsVars, linkVars, treeVars, widthVars, kfVars, uvVars, xpVars, tplVars, ddVars>>

NextRec ==
    \/ LoopCall /\ UNCHANGED OthersRec
    \/ EnterCompute /\ UNCHANGED OthersRec
    \/ ReturnCompute /\ UNCHANGED OthersRec

SpecRec == InitRec /\ [][NextRec]_vars

(***************************************************************************)
(* Properties of the bone-palette partitioning                             *)
(***************************************************************************)
\* The distinct named bones that some processed triangle weights positively.
PositiveBones ==
    {tri_log[t].influences[c][i].name :
        <<t, c, i>> \in {x \in (1..Len(tri_log)) \X (1..3) \X (1..4) :
                            FracPos(tri_log[x[1]].influences[x[2]][x[3]].weight)}}

\* C1: after any sequence of triangles, every triangle group has at most
\* MAX_BONES_PER_TRIANGLE_GROUP (24) names in its bone palette, also when a
\* vertex carries a weight-0 influence on a named bone.
C1_PaletteWithinCapacity ==
    \A g \in 1..Len(triangle_groups) :
        Len(triangle_groups[g].bone_names) <= MAX_BONES_PER_TRIANGLE_GROUP

\* C2: for every triangle group and every vertex whose index is in the
\* group's index buffer, each of the vertex's four bone indices is strictly
\* less than the length of the group's palette, also for vertices without
\* any influence drawn through a group whose palette is empty.
C2_BoneIndexInsidePalette ==
    \A g \in 1..Len(triangle_groups) :
        \A k \in 1..Len(triangle_groups[g].indices) :
            \A slot \in 1..4 :
                vertices[triangle_groups[g].indices[k] + 1].bone_ids[slot]
                    < Len(triangle_groups[g].bone_names)

\* The palette-local index stored for influence i of corner c of processed
\* triangle t names, in the final palette of the owning group, the bone the
\* influence named.
MappingPreserved ==
    \A t \in 1..Len(tri_log) : \A c \in 1..3 : \A i \in 1..4 :
        FracPos(tri_log[t].influences[c][i].weight) =>
            LET palette == triangle_groups[tri_log[t].group].bone_names
                id == vertices[tri_log[t].corners[c] + 1].bone_ids[5 - i]
            IN  /\ id + 1 <= Len(palette)
                /\ palette[id + 1] = tri_log[t].influences[c][i].name

\* C3: when the triangles together require 25 distinct positively weighted
\* bones, there are at least 2 triangle groups, none has more than 24 bones,
\* and the triangle-to-bone mapping is preserved.
C3_TwentyFiveBonesSplit ==
    Cardinality(PositiveBones) >= MAX_BONES_PER_TRIANGLE_GROUP + 1 =>
        /\ Len(triangle_groups) >= 2
        /\ \A g \in 1..Len(triangle_groups) :
              Len(triangle_groups[g].bone_names) <= MAX_BONES_PER_TRIANGLE_GROUP
        /\ MappingPreserved

\* The parts of C3 that do not depend on the capacity of the palette.
C3_SplitAndMapping ==
    /\ Cardinality(PositiveBones) >= MAX_BONES_PER_TRIANGLE_GROUP + 1 =>
          Len(triangle_groups) >= 2
    /\ MappingPreserved

(***************************************************************************)
(* Properties of the EMD vertex layout                                     *)
(***************************************************************************)
\* The reader's half of the stride invariant: whenever read_vertices has
\* decoded a vertex, the bytes it consumed for it equal the derived size.
C4_ReadStride ==
    (vread.status # "idle" /\ sub_hdr.vertex_count > 0) =>
        vread.bytes_read = get_vertex_size_from_flags(sub_hdr.vertex_flags)

\* C4: for every combination of the vertex flags, the bytes read_vertices
\* consumes per vertex and the bytes _write_emd emits per vertex both equal
\* get_vertex_size_from_flags(flags), the stride _write_emd stores in the
\* submesh header.
C4_StrideInvariant ==
    /\ C4_ReadStride
    /\ vwritten.status = "ok" =>
          /\ vwritten.vertex_size = get_vertex_size_from_flags(sub_hdr.vertex_flags)
          /\ vwritten.bytes = vwritten.vertices * vwritten.vertex_size

\* C5: parse_emd fails whenever the declared vertex size of a submesh header
\* differs from the size derived from its flags, for every vertex count
\* including 0.
C5_MismatchIsFatal ==
    (vread.status # "idle"
        /\ sub_hdr.vertex_size # get_vertex_size_from_flags(sub_hdr.vertex_flags))
    => vread.status = "ValueError"

\* The mismatch is fatal as soon as the header declares one vertex or more.
C5_MismatchFatalWithVertices ==
    (vread.status # "idle" /\ sub_hdr.vertex_count > 0
        /\ sub_hdr.vertex_size # get_vertex_size_from_flags(sub_hdr.vertex_flags))
    => vread.status = "ValueError"

(***************************************************************************)
(* Properties of the EAN exporters                                         *)
(***************************************************************************)
\* The keyframe list starts at frame 0 and ends at the clip's last frame.
CoversClip(keyframes, frame_count) ==
    /\ keyframes[1][1] = 0
    /\ keyframes[Len(keyframes)][1] = frame_count - 1

\* C6: every component emitted by the EAN exporters has a keyframe at frame
\* 0 and one at frame_count - 1, also the components of the bones added by
\* add_dummy_rest.
C6_BoundaryCoverage ==
    ean_out.status = "ok" =>
        \A b \in 1..Len(ean_out.nodes) : \A c \in 1..Len(ean_out.nodes[b]) :
            CoversClip(ean_out.nodes[b][c].keyframes, ean_out.frame_count)

\* Boundary coverage holds for every component of the camera exporter and
\* for every component of a bone that has a keyed frame of its own.
C6_CoverageWithoutDummies ==
    ean_out.status = "ok" =>
        \A b \in 1..Len(ean_out.nodes) : \A c \in 1..Len(ean_out.nodes[b]) :
            (ean_job.kind = "char" => b \notin DummyBones(ean_job)) =>
                CoversClip(ean_out.nodes[b][c].keyframes, ean_out.frame_count)

(***************************************************************************)
(* Properties of the EMD triangle-group round trip                         *)
(***************************************************************************)
\* C7: parsing the file _write_emd writes for a tree yields the same
\* sequence of triangle groups, each with the same index list and the same
\* ordered bone-palette names, also for the names "NULL" and "".
C7_TriangleGroupsRoundTrip ==
    emd_stage = "parsed" => emd_parsed = emd_tree

\* The round trip holds for every tree in which no palette holds the name
\* "NULL".
C7_RoundTripWithoutNullName ==
    (emd_stage = "parsed"
        /\ \A g \in 1..Len(emd_tree) : NULL_NAME \notin Range(emd_tree[g].bone_names))
    => emd_parsed = emd_tree

(***************************************************************************)
(* Properties of the skeleton codecs                                       *)
(***************************************************************************)
\* The decoded bones agree with the bones that were written: same count
\* and, at every position, same name and parent, child and sibling index.
SameSkeleton(parsed, bones) ==
    /\ parsed.status = "ok"
    /\ Len(parsed.bones) = Len(bones)
    /\ \A i \in 1..Len(bones) :
          /\ parsed.bones[i].name = bones[i].name
          /\ parsed.bones[i].parent_index = bones[i].parent_index
          /\ parsed.bones[i].child_index = bones[i].child_index
          /\ parsed.bones[i].sibling_index = bones[i].sibling_index

\* C8: a skeleton round-trips through both skeleton codecs: the bytes of
\* export_esk parsed by parse_esk, and the bytes of _build_skeleton_bytes
\* parsed by _parse_skeleton, give the same number of bones and the same
\* name, parent, child and sibling index at every position.
C8_SkeletonRoundTrip ==
    /\ esk_parsed.status # "none" =>
          SameSkeleton(esk_parsed, _build_skeleton_from_armature(skel_arm))
    /\ ean_parsed.status # "none" =>
          SameSkeleton(ean_parsed, _build_skeleton_from_armature(skel_arm))

\* Both codecs have decoded a root, child, grandchild skeleton.
C8_Witness ==
    /\ esk_parsed.status = "ok"
    /\ ean_parsed.status = "ok"
    /\ Len(esk_parsed.bones) = 3
    /\ Len(ean_parsed.bones) = 3
    /\ skel_arm.bones[1].parent = 0
    /\ skel_arm.bones[2].parent = 1
    /\ esk_parsed.bones[1].child_index = 1
    /\ ean_parsed.bones[3].parent_index = 1
    /\ ean_parsed.bones[3].sibling_index = -1

(***************************************************************************)
(* Properties of the decoders on files as found on disk                    *)
(***************************************************************************)
\* The four bytes a file of the decoder's format starts with.
MagicOf(decoder) ==
    CASE decoder = "parse_emd" -> U32(EMD_SIGNATURE)
      [] decoder = "parse_esk" -> U32(ESK_SIGNATURE)
      [] decoder = "parse_emm" -> U32(EMM_SIGNATURE)
      [] decoder = "read_emb" -> U32(EMB_SIGNATURE)
      [] decoder = "read_ean_bytes" -> EAN_MAGIC
      [] decoder = "read_bcs_bytes" -> BCS_MAGIC

HasMagic(data, magic) == Len(data) >= 4 /\ SubSeq(data, 1, 4) = magic

\* C9: every decoder (parse_emd, parse_esk, parse_emm, read_emb,
\* read_ean_bytes, read_bcs_bytes) treats a wrong magic as fatal: on a file
\* whose first four bytes are not the signature of the decoder's format it
\* fails (an exception or, for read_emb, None) and returns no decoded
\* structure, also when the signature occurs further into the buffer.
C9_WrongMagicIsFatal ==
    dec_result.decoder # "none" /\ ~HasMagic(dec_data, MagicOf(dec_result.decoder))
        => dec_result.status # "ok"

\* The part of C9 the code keeps: parse_emd, parse_esk and parse_emm raise
\* on every file that does not start with their signature.
C9_CheckedDecodersRejectWrongMagic ==
    /\ dec_result.decoder \in {"parse_emd", "parse_esk", "parse_emm"}
    /\ ~HasMagic(dec_data, MagicOf(dec_result.decoder))
    => dec_result.status \in {"ValueError", "struct.error"}

\* A texture container that starts with a complete header but ends before
\* something its tables announce: an entry of the entry table, a blob, a
\* slot of the name table, or a name.
EmbCutOff(raw) ==
    /\ HasMagic(raw, U32(EMB_SIGNATURE))
    /\ Len(raw) >= 32
    /\ \E i \in 0..(Rd32(raw, 12) - 1) :
          \/ Rd32(raw, 24) + 8 * i + 8 > Len(raw)
          \/ Rd32(raw, Rd32(raw, 24) + 8 * i) + Rd32(raw, 24) + 8 * i
             + Rd32(raw, Rd32(raw, 24) + 8 * i + 4) > Len(raw)
          \/ /\ Rd32(raw, 28) # 0
             /\ \/ Rd32(raw, 28) + 4 * i + 4 > Len(raw)
                \/ Rd32(raw, Rd32(raw, 28) + 4 * i) >= Len(raw)

\* C10: decoding a container whose buffer is cut off in the middle of a
\* table, or in which a pointer or string offset lands at or past the end
\* of the buffer, fails for the whole file: read_emb returns no partially
\* decoded result, no shortened blob and no empty string for missing data.
C10_TruncationIsFatal ==
    dec_result.decoder = "read_emb" /\ EmbCutOff(dec_data) => dec_result.status # "ok"

\* The part of C10 the code keeps: the entries of a returned container are
\* numbered 0, 1, 2, ... and never outnumber the header's entry count, and
\* a file shorter than its 32-byte header is not decoded.
C10_EntriesWithinHeaderCount ==
    dec_result.decoder = "read_emb" =>
        IF dec_result.status = "ok"
        THEN /\ Len(dec_data) >= 32
             /\ \A k \in 1..Len(dec_result.value.entries) :
                   dec_result.value.entries[k].index = k - 1
             /\ Len(dec_result.value.entries)
                   <= Rd32(dec_data, Find(dec_data, U32(EMB_SIGNATURE)) + 12)
        ELSE dec_result.status = "None"

(***************************************************************************)
(* Properties of the EAN importer's sampling                               *)
(***************************************************************************)
\* C11 as stated: sampling at the frame of any stored keyframe returns that
\* keyframe's stored (x, y, z, w), whatever the other keyframes and the
\* default are.
C11_EveryKeyframeExact ==
    ic_out.frame # -1 =>
        \A i \in 1..Len(ic_comp) :
            ic_comp[i].frame_index = ic_out.frame => ic_out.vals = KeyframeValues(ic_comp[i])

\* C11: sampling a component at the frame of one of its stored keyframes
\* returns the stored (x, y, z, w) of the first keyframe in stored order
\* that has this frame; when only one keyframe has the frame these are
\* exactly that keyframe's values, whatever the other keyframes and the
\* default value are.
C11_KeyframeExactness ==
    ic_out.frame # -1 =>
        \A i \in 1..Len(ic_comp) :
            /\ ic_comp[i].frame_index = ic_out.frame
            /\ \A j \in 1..(i - 1) : ic_comp[j].frame_index # ic_out.frame
            => ic_out.vals = KeyframeValues(ic_comp[i])

\* A component stored out of frame order, with two keyframes on the
\* sampled frame and one after it, was sampled at that frame and the values
\* of the first of the two came back.
C11_Witness ==
    /\ ic_out.frame = 1
    /\ Len(ic_comp) = 3
    /\ ic_comp[1].frame_index = 2
    /\ ic_comp[2].frame_index = 1
    /\ ic_comp[3].frame_index = 1
    /\ KeyframeValues(ic_comp[2]) # KeyframeValues(ic_comp[3])
    /\ ic_out.vals = KeyframeValues(ic_comp[2])
    /\ ic_out.vals # ic_default

\* The stored keyframe the loop leaves in prev: among the keyframes before
\* the frame, the last in stored order of those with the largest frame.
NearestBefore(comp, frame) ==
    CHOOSE i \in 1..Len(comp) :
        /\ comp[i].frame_index < frame
        /\ \A j \in 1..Len(comp) :
              comp[j].frame_index < frame =>
                 \/ comp[j].frame_index < comp[i].frame_index
                 \/ comp[j].frame_index = comp[i].frame_index /\ j <= i

\* The stored keyframe the loop leaves in nxt: among the keyframes after the
\* frame, the first in stored order of those with the smallest frame.
NearestAfter(comp, frame) ==
    CHOOSE i \in 1..Len(comp) :
        /\ comp[i].frame_index > frame
        /\ \A j \in 1..Len(comp) :
              comp[j].frame_index > frame =>
                 \/ comp[j].frame_index > comp[i].frame_index
                 \/ comp[j].frame_index = comp[i].frame_index /\ j >= i

\* The sampled frame has keyframes on both sides and none on it.
SampledBetween ==
    /\ ic_out.frame # -1
    /\ \E i \in 1..Len(ic_comp) : ic_comp[i].frame_index < ic_out.frame
    /\ \E i \in 1..Len(ic_comp) : ic_comp[i].frame_index > ic_out.frame
    /\ \A i \in 1..Len(ic_comp) : ic_comp[i].frame_index # ic_out.frame

Channels(k) == <<k.x, k.y, k.z, k.w>>

\* C22: sampling at a frame f strictly between two stored keyframes uses
\* the nearest keyframe before f and the nearest keyframe after f and
\* returns, for each of the four channels,
\* prev + (next - prev) * (f - prev_frame) / (next_frame - prev_frame).
\* The sampled value is the rational num/den; the equation is checked
\* multiplied by den * (next_frame - prev_frame).
C22_LinearBetweenNeighbours ==
    SampledBetween =>
        LET prev == ic_comp[NearestBefore(ic_comp, ic_out.frame)]
            next == ic_comp[NearestAfter(ic_comp, ic_out.frame)]
            span == next.frame_index - prev.frame_index
        IN  \A c \in 1..4 :
               /\ ic_out.vals[c][2] > 0
               /\ ic_out.vals[c][1] * span
                     = ic_out.vals[c][2]
                         * (Channels(prev)[c] * span
                              + (Channels(next)[c] - Channels(prev)[c])
                                  * (ic_out.frame - prev.frame_index))

\* Keyframes only at frames 5 and 20, sampled at frame 12: each channel is
\* prev + (7/15) * (next - prev); for (1, 2, 3, 1) and (0, -4, 0, 8) that is
\* (8/15, -4/5, 8/5, 64/15).
C22_Witness ==
    /\ ic_out.frame = 12
    /\ Len(ic_comp) = 2
    /\ ic_comp[1] = [frame_index |-> 20, x |-> 0, y |-> -4, z |-> 0, w |-> 8]
    /\ ic_comp[2] = [frame_index |-> 5, x |-> 1, y |-> 2, z |-> 3, w |-> 1]
    /\ ic_out.vals = <<<<8, 15>>, <<-4, 5>>, <<8, 5>>, <<64, 15>>>>

(***************************************************************************)
(* Properties of the BCS part sets                                         *)
(***************************************************************************)
\* A 32-bit hide-flag field with a bit outside the ten part-type bits
\* (mask 0x3FF); as a signed value it is above 1023 or negative.
OutsideMask(v) == v > 1023 \/ v < 0

PartFlagsOutside(part) ==
    \/ OutsideMask(part.hide_flags)
    \/ OutsideMask(part.hide_mat_flags)
    \/ \E k \in 1..Len(part.physics) :
          OutsideMask(part.physics[k].hide_flags) \/ OutsideMask(part.physics[k].hide_mat_flags)

AnyFlagOutside(doc) ==
    \E i \in 1..Len(doc) : \E k \in 1..Len(doc[i].parts) : PartFlagsOutside(doc[i].parts[k])

AllPartCountsTen(doc) == \A i \in 1..Len(doc) : doc[i].null \/ doc[i].part_count = 10

\* C12: read_bcs_bytes fails for every part and every physics part with a
\* hide_flags or hide_mat_flags bit outside the mask 0x3FF, a set top bit
\* included, and accepts every value inside the mask, with the same bound
\* for parts and physics parts.
C12_HideFlagsWithinMask ==
    bcs_out.status # "none" =>
        /\ AnyFlagOutside(bcs_doc) => bcs_out.status = "ValueError"
        /\ AllPartCountsTen(bcs_doc) /\ ~AnyFlagOutside(bcs_doc) => bcs_out.status = "ok"

\* The part of C12 the code keeps: a part field above 1023 and a physics
\* part field above 512 are rejected, and a file in which every part field
\* is in 0..1023 and every physics part field in 0..512 is accepted.
C12_SignedBoundsChecked ==
    bcs_out.status # "none" /\ AllPartCountsTen(bcs_doc) =>
        (bcs_out.status = "ValueError"
         <=> \E i \in 1..Len(bcs_doc) : \E k \in 1..Len(bcs_doc[i].parts) :
                LET part == bcs_doc[i].parts[k]
                IN  \/ part.hide_flags > 1023
                    \/ part.hide_mat_flags > 1023
                    \/ \E q \in 1..Len(part.physics) :
                          \/ part.physics[q].hide_flags > 512
                          \/ part.physics[q].hide_mat_flags > 512)

\* The 0-based table positions of the non-null part sets, in table order.
NonNullPositions(doc) ==
    [k \in 1..Cardinality({i \in 1..Len(doc) : ~doc[i].null}) |->
        (CHOOSE i \in 1..Len(doc) :
            ~doc[i].null /\ Cardinality({j \in 1..(i - 1) : ~doc[j].null}) = k - 1) - 1]

\* C13: read_bcs_bytes fails and returns no BCSFile whenever a non-null
\* part set, at any table position, declares a part count other than 10;
\* a null table pointer is skipped without error and the part sets after
\* it keep their table position as id.
C13_PartCountChecked ==
    bcs_out.status # "none" =>
        /\ ~AllPartCountsTen(bcs_doc) => bcs_out.status = "ValueError" /\ bcs_out.value = <<>>
        /\ bcs_out.status = "ok" =>
              [k \in 1..Len(bcs_out.value.part_sets) |-> bcs_out.value.part_sets[k].id]
                  = NonNullPositions(bcs_doc)
        /\ (\A i \in 1..Len(bcs_doc) : bcs_doc[i].null \/ bcs_doc[i] = GoodPartSet(PlainPart))
              => bcs_out.status = "ok"

\* A table with a null pointer first and a part set with a plain part
\* second was decoded: one part set, with id 1.
C13_Witness ==
    /\ Len(bcs_doc) = 2
    /\ bcs_doc[1].null
    /\ bcs_doc[2] = GoodPartSet(PlainPart)
    /\ bcs_out.status = "ok"
    /\ Len(bcs_out.value.part_sets) = 1
    /\ bcs_out.value.part_sets[1].id = 1
    /\ Len(bcs_out.value.part_sets[1].parts) = 1

(***************************************************************************)
(* Properties of the influences gathered by the EMD exporter               *)
(***************************************************************************)
\* The names of the influences kept for a corner (the padding excluded).
KeptNames(influences) ==
    {influences[i].name : i \in {j \in 1..Len(influences) : influences[j].name # EmptyName}}

\* C14: no influence of an exported vertex is dropped silently: when a
\* vertex is weighted to a bone name absent from the skeleton, or has
\* influences beyond the four strongest, the ones that are left out of the
\* export are counted in a reported error.
C14_NoSilentDrop ==
    \A t \in 1..Len(tri_log) : \A c \in 1..3 :
        \A k \in 1..Len(tri_log[t].tri[c].groups) :
            \/ tri_log[t].tri[c].groups[k].name \in KeptNames(tri_log[t].influences[c])
            \/ tri_log[t].errors # <<>>

\* What the exporter does instead: it keeps, for every corner, the (at most
\* four) strongest influences among those on armature bones, and reports
\* nothing.
C14_KeepsFourKnown ==
    \A t \in 1..Len(tri_log) : \A c \in 1..3 :
        /\ tri_log[t].errors = <<>>
        /\ KeptNames(tri_log[t].influences[c]) \subseteq ArmatureBones
        /\ Cardinality(KeptNames(tri_log[t].influences[c]))
              = Min2(4, Len(KnownInfluences(tri_log[t].tri[c].groups)))

(***************************************************************************)
(* Properties of the skeletons held after decoding or building             *)
(***************************************************************************)
\* Following parent indices from bone i (1-based position) ends at a bone
\* with parent -1 within fuel steps, never leaving the list.
RECURSIVE ReachesRoot(_, _, _)
ReachesRoot(bones, i, fuel) ==
    \/ bones[i].parent_index = -1
    \/ /\ fuel > 0
       /\ bones[i].parent_index \in 0..(Len(bones) - 1)
       /\ ReachesRoot(bones, bones[i].parent_index + 1, fuel - 1)

\* The skeleton invariant: bone 0 is a root (parent -1), every other bone
\* has a parent index of an existing entry, and the parent links have no
\* cycle.  A skeleton without bones has nothing to violate it.
SkeletonIsForest(bones) ==
    bones # <<>> =>
        /\ bones[1].parent_index = -1
        /\ \A i \in 2..Len(bones) : bones[i].parent_index \in 0..(Len(bones) - 1)
        /\ \A i \in 1..Len(bones) : ReachesRoot(bones, i, Len(bones))

\* C15: every skeleton decoded by parse_esk or _EANParser._parse_skeleton
\* has bone 0 as root with parent index -1, parents that are existing
\* entries, and no cycle of parent links.
C15_DecodedSkeletonIsForest ==
    /\ dec_result.decoder = "parse_esk" /\ dec_result.status = "ok"
          => SkeletonIsForest(dec_result.value)
    /\ dec_result.decoder = "read_ean_bytes" /\ dec_result.status = "ok"
          => SkeletonIsForest(dec_result.value.skeleton)

\* The part of C15 that holds: the skeleton built by
\* _build_skeleton_from_armature satisfies the invariant, and so does what
\* the two decoders return for the files the exporters wrote from it.
C15_BuiltSkeletonIsForest ==
    /\ SkeletonIsForest(_build_skeleton_from_armature(skel_arm))
    /\ esk_parsed.status = "ok" => SkeletonIsForest(esk_parsed.bones)
    /\ ean_parsed.status = "ok" => SkeletonIsForest(ean_parsed.bones)

(***************************************************************************)
(* Properties of the palette partitioner                                   *)
(***************************************************************************)
\* The partitioner on the triangles that decide where a triangle goes:
\* two that fill a palette, one that opens a second group, one that fits
\* both groups, and one with a fifth influence.
PartitionMenu ==
    {Tri(1, 12, 0), Tri(13, 12, 0), Tri(25, 1, 0), Tri(1, 1, NumBones), TriFive}

PartitionStep == \E tri \in PartitionMenu : CollectTriangle(tri)

NextPartition == PartitionStep /\ UNCHANGED <<vertexVars, animVars, emdVars, skelVars, decVars, interpVars, bcsVars, linkVars, treeVars, widthVars, kfVars, uvVars, xpVars, tplVars, ddVars, recVars>>

SpecPartition == InitPalette /\ [][NextPartition]_vars

\* A group fits a triangle when its palette united with the triangle's
\* required bones has at most 24 names.
UnionFits(required_bones, palette_list) ==
    Cardinality(Range(palette_list) \cup Range(required_bones))
        <= MAX_BONES_PER_TRIANGLE_GROUP

\* The triangle just processed went to the earliest-created group that
\* fits it, and a group was appended exactly when no group fitted.
PlacedFirstFit ==
    Len(tri_log') = Len(tri_log) + 1 =>
        LET e == tri_log'[Len(tri_log')]
            fitting == {g \in 1..Len(triangle_groups) :
                           UnionFits(e.required_bones, triangle_groups[g].bone_names)}
        IN  IF fitting # {}
            THEN /\ e.group = SetMin(fitting)
                 /\ Len(triangle_groups') = Len(triangle_groups)
            ELSE /\ e.group = Len(triangle_groups) + 1
                 /\ Len(triangle_groups') = Len(triangle_groups) + 1

\* The lists after a triangle are a function of the lists before it and of
\* the triangle alone, so processing the same triangle sequence once more
\* gives the same vertices, groups, palettes and index buffers.
SameOnReplay ==
    Len(tri_log') = Len(tri_log) + 1 =>
        \E r \in {_collect_triangle(tri_log'[Len(tri_log')].tri,
                                    [vertices |-> vertices,
                                     triangle_groups |-> triangle_groups])} :
            /\ vertices' = r.vertices
            /\ triangle_groups' = r.triangle_groups
            /\ tri_log' = Append(tri_log, r.entry)

\* C16: the palette partitioner is first-fit and deterministic: each
\* triangle goes to the earliest-created group whose palette united with
\* the triangle's required bones has at most 24 names, a group is appended
\* only when none fits, and the same triangle sequence gives the same
\* groups, palettes and index buffers.
C16_FirstFitDeterministic == [][PlacedFirstFit /\ SameOnReplay]_vars

\* Two groups fit the last triangle and it went to the first of them.
C16_Witness ==
    /\ Len(tri_log) >= 2
    /\ Len(triangle_groups) >= 2
    /\ tri_log[Len(tri_log)].group = 1
    /\ tri_log[Len(tri_log)].required_bones # <<>>
    /\ \E t \in 1..(Len(tri_log) - 1) : tri_log[t].group = 2
    /\ UnionFits(tri_log[Len(tri_log)].required_bones, triangle_groups[2].bone_names)

(***************************************************************************)
(* Properties of _bone_child_sibling_indices                               *)
(***************************************************************************)
\* The bones (0-based indices) with parent p, in input order.
ChildList(bones, p) ==
    SelectSeq([i \in 1..Len(bones) |-> i - 1], LAMBDA c : bones[c + 1].parent_index = p)

\* The bones with their links set to -1.
WithoutLinks(bones) ==
    [i \in 1..Len(bones) |-> [bones[i] EXCEPT !.child_index = -1, !.sibling_index = -1]]

\* C17: _bone_child_sibling_indices derives the links from the parent
\* indices alone: the first bone with parent p in input order is p's
\* child_index, each further one is the sibling_index of the one before,
\* the last has sibling_index -1, a bone without children has child_index
\* -1; the previous links have no influence and parent_index is unchanged.
C17_LinksFromParents ==
    link_out # <<>> =>
        /\ Len(link_out) = Len(link_in)
        /\ \A p \in 0..(Len(link_in) - 1) :
              LET cs == ChildList(link_in, p)
              IN  /\ link_out[p + 1].child_index = IF cs # <<>> THEN cs[1] ELSE -1
                  /\ \A i \in 1..Len(cs) :
                        link_out[cs[i] + 1].sibling_index
                            = IF i < Len(cs) THEN cs[i + 1] ELSE -1
                  /\ link_out[p + 1].parent_index = link_in[p + 1].parent_index
                  /\ link_out[p + 1].name = link_in[p + 1].name
                  /\ link_out[p + 1].index = link_in[p + 1].index
        /\ link_out = _bone_child_sibling_indices(WithoutLinks(link_in))

\* Bone 0 with the children 1 and 2, all three carrying other links before
\* the call.
C17_Witness ==
    /\ Len(link_in) = 3
    /\ link_in[1].parent_index = -1
    /\ link_in[2].parent_index = 0
    /\ link_in[3].parent_index = 0
    /\ link_in[1].child_index = 2
    /\ link_in[1].sibling_index = 0
    /\ link_out # <<>>
    /\ link_out[1].child_index = 1
    /\ link_out[1].sibling_index = -1
    /\ link_out[2].sibling_index = 2
    /\ link_out[3].sibling_index = -1
    /\ link_out[3].child_index = -1

(***************************************************************************)
(* Properties of the EMD tree through _write_emd and parse_emd             *)
(***************************************************************************)

RemoveAt(seq, i) == SubSeq(seq, 1, i - 1) \o SubSeq(seq, i + 1, Len(seq))

\* The decoded models without the element at the path.
WithoutElement(models, path) ==
    IF Len(path) = 1 THEN RemoveAt(models, path[1])
    ELSE [models EXCEPT ![path[1]].meshes =
            IF Len(path) = 2 THEN RemoveAt(@, path[2])
            ELSE [@ EXCEPT ![path[2]].submeshes =
                    IF Len(path) = 3 THEN RemoveAt(@, path[3])
                    ELSE [@ EXCEPT ![path[3]].triangle_groups = RemoveAt(@, path[4])]]]

\* The list of the decoded tree that holds the element at the path.
ListAround(models, path) ==
    IF Len(path) = 1 THEN models
    ELSE IF Len(path) = 2 THEN models[path[1]].meshes
    ELSE IF Len(path) = 3 THEN models[path[1]].meshes[path[2]].submeshes
    ELSE models[path[1]].meshes[path[2]].submeshes[path[3]].triangle_groups

\* What parse_emd decodes from the file as it was written.
ParsedAsWritten == parse_emd(tree_file.data).value.models

ZeroEntryParsed == tree_zero # NoSlot /\ tree_parsed # TreeNone

\* C18: at each of the four pointer tables a zero entry is an absent
\* element: parse_emd raises nothing and the decoded tree is the tree of the
\* file without the element the entry pointed to.
C18_ZeroEntryIsAbsent ==
    ZeroEntryParsed =>
        /\ tree_parsed.status = "ok"
        /\ tree_parsed.value.models = WithoutElement(ParsedAsWritten, tree_zero.path)

\* C18, the model table: a zero entry of the model table is skipped.
C18_ZeroModelEntryIsAbsent ==
    (ZeroEntryParsed /\ tree_zero.level = "model") =>
        /\ tree_parsed.status = "ok"
        /\ tree_parsed.value.models = WithoutElement(ParsedAsWritten, tree_zero.path)

\* C18, the mesh, submesh and triangle-group tables: a zero entry is read
\* as an element at the start of its container; parse_emd raises, or the
\* decoded list has as many elements as the table has entries.
C18_ZeroEntryBelowModelsIsDecoded ==
    (ZeroEntryParsed /\ tree_zero.level # "model") =>
        \/ tree_parsed.status \in {"struct.error", "ValueError"}
        \/ /\ tree_parsed.status = "ok"
           /\ Len(ListAround(tree_parsed.value.models, tree_zero.path))
                 = Len(ListAround(ParsedAsWritten, tree_zero.path))

C18_ModelWitness ==
    /\ ZeroEntryParsed
    /\ tree_zero.level = "model"
    /\ Len(tree_doc) = 2
    /\ Len(tree_parsed.value.models) = 1

\* The positions of the decoded structures, in the shape of the layout of
\* _write_emd.
Positions(models) ==
    [m \in 1..Len(models) |->
        [at |-> models[m].at,
         name_at |-> models[m].name_at,
         meshes |->
            [e \in 1..Len(models[m].meshes) |->
                [at |-> models[m].meshes[e].at,
                 name_at |-> models[m].meshes[e].name_at,
                 submeshes |->
                    [u \in 1..Len(models[m].meshes[e].submeshes) |->
                        LET sub == models[m].meshes[e].submeshes[u]
                        IN  [at |-> sub.at,
                             name_at |-> sub.name_at,
                             vertex_at |-> sub.vertex_at,
                             sampler_at |-> sub.sampler_at,
                             triangle_groups |->
                                [g \in 1..Len(sub.triangle_groups) |->
                                    [at |-> sub.triangle_groups[g].at,
                                     face_at |-> sub.triangle_groups[g].face_at,
                                     bone_name_at |->
                                        sub.triangle_groups[g].bone_name_at]]]]]]]]

WrittenFileParsed == tree_zero = NoSlot /\ tree_parsed # TreeNone

\* C19: parse_emd adds to every pointer the base _write_emd subtracted
\* from it: the models, meshes, submeshes and triangle groups, and their
\* names, vertices, samplers, indices and bone names, are decoded at the
\* positions where _write_emd put them.
C19_DecodedWhereWritten ==
    WrittenFileParsed =>
        /\ tree_parsed.status = "ok"
        /\ Positions(tree_parsed.value.models) = tree_file.layout

\* A file of two models is decoded, the second with two meshes whose last
\* triangle group holds indices and a bone name.
C19_Witness ==
    /\ WrittenFileParsed
    /\ Len(tree_doc) = 2
    /\ Len(tree_file.layout[2].meshes) = 2
    /\ tree_file.layout[2].at > tree_file.layout[1].at
    /\ tree_file.layout[2].meshes[2].submeshes[1].triangle_groups[1].face_at > 0
    /\ tree_file.layout[2].meshes[2].submeshes[1].triangle_groups[1].bone_name_at[2] > 0
    /\ tree_file.layout[2].meshes[1].submeshes[2].sampler_at > 0
    /\ tree_parsed.value.models[2].meshes[2].submeshes[1].name = <<116, 50>>

(***************************************************************************)
(* Properties of the index width of a triangle group                       *)
(***************************************************************************)

\* The width chosen for the indices from their number alone.
WidthFor(count) == IF count > MAX_16_BIT_COUNT THEN 4 ELSE 2

\* The bytes the written file holds between the header of the triangle
\* group and the vertices: the indices, padded to a multiple of 4.
IndexBytesWritten ==
    width_file.layout[1].meshes[1].submeshes[1].vertex_at
        - (width_file.layout[1].meshes[1].submeshes[1].triangle_groups[1].at + 16)

\* The count the file declares for the triangle group.
DeclaredCount ==
    Rd32(width_file.data, width_file.layout[1].meshes[1].submeshes[1].triangle_groups[1].at)

\* C20: the width of the indices follows from their number alone and is the
\* same on both sides: _write_emd writes 4 bytes for each index when there
\* are more than 65535 of them and 2 bytes otherwise, it writes no file
\* when an index does not fit the width, and parse_emd decodes every index
\* of a written file to the value it had.
C20_IndexWidthFromCount ==
    /\ width_file.status = "ok" =>
          /\ DeclaredCount = width_doc.count
          /\ IndexBytesWritten
                = WidthFor(width_doc.count) * width_doc.count
                  + Pad4(WidthFor(width_doc.count) * width_doc.count)
    /\ width_file.status # "none" =>
          (width_file.status = "struct.error"
              <=> (width_doc.count \in 1..MAX_16_BIT_COUNT /\ width_doc.value > 65535))
    /\ width_indices # TreeNone => width_indices = Decoded(IndexList(width_doc))

\* More than 65535 indices, one of them above 65535, are written and decoded.
C20_Witness ==
    /\ width_indices.status = "ok"
    /\ width_doc.count = MAX_16_BIT_COUNT + 1
    /\ width_doc.value = 65536
    /\ width_indices.value[width_doc.at] = 65536
    /\ IndexBytesWritten = 4 * width_doc.count

\* 65535 indices are written 16 bits wide and decoded.
C20_NarrowWitness ==
    /\ width_indices.status = "ok"
    /\ width_doc.count = MAX_16_BIT_COUNT
    /\ width_doc.value = 65535
    /\ IndexBytesWritten = 2 * width_doc.count + 2

\* A short group with an index above 65535 is not written.
C20_RefusedWitness ==
    /\ width_file.status = "struct.error"
    /\ width_doc.count = 3
    /\ width_doc.value = 70000

(***************************************************************************)
(* Properties of the EAN animation blocks                                  *)
(***************************************************************************)

\* What the exporter of the job builds before packing: the frame count and
\* the nodes with their components.
BuiltFrameCount ==
    IF kf_job.kind = "char" THEN _build_animation_bytes(kf_job).frame_count
    ELSE export_cam_components(kf_job).frame_count

BuiltNodes ==
    IF kf_job.kind = "char" THEN CharNodes(_build_animation_bytes(kf_job))
    ELSE <<[bone_idx |-> 0, comps |-> export_cam_components(kf_job).nodes[1]]>>

WrittenBlockParsed == kf_patch = NoPatch /\ kf_parsed # KfNone

\* C21: the width of the frame indices is chosen once for the animation
\* from its frame count (the largest frame + 1): 8 bits up to 255, 16 bits
\* above; every frame index of every component of a written animation,
\* padded boundary frames included, lies in 0 .. 2^width - 1 and is decoded
\* as the frame number the exporter emitted.
C21_FrameIndexWidth ==
    WrittenBlockParsed =>
        /\ kf_parsed.status = "ok"
        /\ kf_parsed.value.frame_count = BuiltFrameCount
        /\ kf_parsed.value.index_size
              = (IF BuiltFrameCount > MAX_8_BIT_FRAME_COUNT THEN 1 ELSE 0)
        /\ Len(kf_parsed.value.nodes) = Len(BuiltNodes)
        /\ \A n \in 1..Len(BuiltNodes) :
              /\ Len(kf_parsed.value.nodes[n].components) = Len(BuiltNodes[n].comps)
              /\ \A c \in 1..Len(BuiltNodes[n].comps) :
                    /\ kf_parsed.value.nodes[n].components[c].frames
                          = [k \in 1..Len(BuiltNodes[n].comps[c].keyframes) |->
                                BuiltNodes[n].comps[c].keyframes[k][1]]
                    /\ \A k \in 1..Len(BuiltNodes[n].comps[c].keyframes) :
                          /\ BuiltNodes[n].comps[c].keyframes[k][1] >= 0
                          /\ BuiltNodes[n].comps[c].keyframes[k][1]
                                < (IF kf_parsed.value.index_size = 0 THEN 256 ELSE 65536)

\* A character animation keyed at frames 3 and 65535 is written with 16-bit
\* indices and decoded, the padded frame 0 included.
C21_Witness ==
    /\ WrittenBlockParsed
    /\ kf_job.kind = "char"
    /\ kf_parsed.status = "ok"
    /\ kf_parsed.value.index_size = 1
    /\ kf_parsed.value.nodes[1].components[1].frames = <<0, 3, 65535>>

\* An animation with frame count 255 is written with 8-bit indices.
C21_NarrowWitness ==
    /\ WrittenBlockParsed
    /\ kf_parsed.status = "ok"
    /\ kf_parsed.value.index_size = 0
    /\ kf_parsed.value.frame_count = 255
    /\ kf_parsed.value.nodes[1].components[1].frames = <<0, 254>>

\* An animation keyed at a negative frame, or above frame 65535, is not
\* written.
C21_RefusedWitness ==
    /\ kf_file.status = "struct.error"
    /\ kf_job.kind = "cam"
    /\ kf_job.frames = {255, 65536}

PatchedBlockParsed == kf_patch # NoPatch /\ kf_parsed # KfNone

\* The component types of the decoded animation.
DecodedTypes ==
    UNION {{kf_parsed.value.nodes[n].components[c].type :
               c \in 1..Len(kf_parsed.value.nodes[n].components)} :
           n \in 1..Len(kf_parsed.value.nodes)}

\* C24: a component whose type byte is not 0, 1 or 2 is decoded to a value
\* that keeps the byte read, so that writing it again gives the same byte
\* and two different unknown bytes stay different.
C24_UnknownTypeByteKept ==
    PatchedBlockParsed =>
        /\ kf_parsed.status = "ok"
        /\ kf_patch.byte \in DecodedTypes

\* What the decoder does: every type byte other than 0, 1 and 2 gives the
\* animation that byte 255 gives.
C24_UnknownTypeByteIs255 ==
    (PatchedBlockParsed /\ kf_patch.byte \notin {0, 1, 2}) =>
        kf_parsed = _parse_animation(Poke(kf_file.value, kf_patch.pos, <<255>>),
                                     ANIMATION_OFFSET)

\* The known type bytes are decoded as they are.
C24_KnownTypeByteKept ==
    (PatchedBlockParsed /\ kf_patch.byte \in {0, 1, 2, 255}) =>
        kf_patch.byte \in DecodedTypes

C24_Witness ==
    /\ PatchedBlockParsed
    /\ kf_patch.byte = 7
    /\ kf_parsed.status = "ok"
    /\ 255 \in DecodedTypes

(***************************************************************************)
(* Properties of the V coordinate of the UV channels                       *)
(***************************************************************************)
InvertV(uv) == <<uv[1], UV_ONE - uv[2]>>

UvChannels == {"uv", "uv2"}

FlagOfChannel(ch) == IF ch = "uv" THEN VERTEX_TEXUV ELSE VERTEX_TEX2UV

\* The channels the file holds.
StoredChannels == {ch \in UvChannels : HasFlag(uv_src.flags, FlagOfChannel(ch))}

WrittenAs(vertex) ==
    VertexUvBytes(uv_src.flags,
                  [ch \in UvChannels |->
                      IF ch \in StoredChannels THEN vertex[ch] ELSE DefaultUv])

C23_DecodedWitness ==
    /\ uv_out.via = "decoded"
    /\ uv_src.flags = VERTEX_POSITION + VERTEX_TEXUV
    /\ uv_src.uv = <<0, 1>>
    /\ uv_out.data = VertexUvBytes(uv_src.flags, [uv |-> <<0, 3>>, uv2 |-> DefaultUv])
    /\ uv_out.data # StoredBytes

(***************************************************************************)
(* Properties of export_ean and its operator                               *)
(***************************************************************************)
ExportReturned == xp_stage \in {"called", "executed"}

\* C25: after export_ean has returned, on whatever path, the armature's
\* active action and the scene's current frame are those set before the
\* call.
C25_HostStateUnchanged == ExportReturned => xp_host = xp_before

\* The active action is put back on every path.
C25_ActionUnchanged == ExportReturned => xp_host.action = xp_before.action

\* The frame is put back on every path but one: when the sampling of an
\* action raises, the scene stays at the frame that was being sampled.
C25_FrameUnchangedUnlessSamplingRaises ==
    ExportReturned =>
        \/ xp_host.frame = xp_before.frame
        \/ /\ xp_job.mode = "sampling_raises"
           /\ xp_result.message = "unexpected"
           /\ \E k \in 1..Len(xp_job.actions) :
                 /\ xp_job.actions[k].kind = "character"
                 /\ xp_job.actions[k].frames # {}
                 /\ xp_host.frame = SetMin(xp_job.actions[k].frames)

\* The export returned after the sampling of an action raised.
C25_SamplingRaisedWitness ==
    /\ xp_stage = "called"
    /\ xp_job.mode = "sampling_raises"
    /\ xp_result.message = "unexpected"
    /\ xp_before = [action |-> 9, frame |-> 0]
    /\ xp_host = [action |-> 9, frame |-> 1]

\* C26: when export_ean reports failure the operator reports an error and
\* returns CANCELLED; it reports success and returns FINISHED only when the
\* export succeeded.
C26_FailureIsCancelled ==
    xp_stage = "executed" =>
        IF xp_result.ok
        THEN xp_op = [report |-> "INFO", returned |-> "FINISHED"]
        ELSE xp_op = [report |-> "ERROR", returned |-> "CANCELLED"]

\* What the operator does: with an armature selected it reports success and
\* returns FINISHED whatever export_ean returned.
C26_FinishedWheneverCalled ==
    (xp_stage = "executed" /\ xp_job.mode # "no_armature") =>
        xp_op = [report |-> "INFO", returned |-> "FINISHED"]

\* A failed export, nothing written, reported as finished.
C26_FailedFinishedWitness ==
    /\ xp_stage = "executed"
    /\ ~xp_result.ok
    /\ xp_result.file = NoFile
    /\ xp_result.message = "no_keyframes"
    /\ xp_op = [report |-> "INFO", returned |-> "FINISHED"]

\* The actions export_ean gets animation bytes from.
Exportable ==
    {k \in 1..Len(xp_job.actions) :
        xp_job.actions[k].kind = "character" /\ xp_job.actions[k].frames # {}}

ExportedIndices == {xp_job.actions[k].index : k \in Exportable}

DecodedAt(i) ==
    {a \in {xp_parsed.animations[n] : n \in 1..Len(xp_parsed.animations)} : a.index = i}

\* The frames of the first component of the first node of a decoded
\* animation.
FirstFrames(a) == a.animation.value.nodes[1].components[1].frames

\* C27: the animation table of the written file has max_index + 1 slots,
\* slot i is non-zero exactly when an action with exportable keyframes
\* resolved to index i, every such action is in the file, and the decoded
\* animations carry the index of their slot.
C27_EveryActionInFile ==
    xp_parsed.read =>
        /\ Rd16(xp_result.file, 18) = SetMax(ExportedIndices) + 1
        /\ {xp_parsed.animations[n].index : n \in 1..Len(xp_parsed.animations)}
              = ExportedIndices
        /\ \A k \in Exportable :
              \E a \in DecodedAt(xp_job.actions[k].index) :
                 a.name = LabelBytes(xp_job.actions[k])

\* The action of index i the file holds: the last one in the order of
\* _action_sort_key.
LastOfIndex(i) ==
    CHOOSE k \in Exportable :
        /\ xp_job.actions[k].index = i
        /\ \A j \in Exportable :
              xp_job.actions[j].index = i =>
                 \/ j = k
                 \/ KeyLess(_action_sort_key(xp_job.actions[j]),
                            _action_sort_key(xp_job.actions[k]))

\* What the written file holds: max_index + 1 slots; slot i is non-zero
\* exactly when an exportable action resolved to i >= 0; the animation of
\* slot i is decoded with index i and is the last action of that index in
\* sort order, the others of that index and the actions of negative index
\* being left out.
C27_OneActionPerSlot ==
    xp_parsed.read =>
        /\ Rd16(xp_result.file, 18) = SetMax(ExportedIndices) + 1
        /\ \A i \in 0..(Rd16(xp_result.file, 18) - 1) :
              /\ RdI32(xp_result.file, RdI32(xp_result.file, 24) + 4 * i) # 0
                    <=> i \in ExportedIndices
              /\ Cardinality(DecodedAt(i)) = IF i \in ExportedIndices THEN 1 ELSE 0
              /\ \A a \in DecodedAt(i) :
                    /\ a.name = LabelBytes(xp_job.actions[LastOfIndex(i)])
                    /\ a.animation.status = "ok"
        /\ Len(xp_parsed.animations)
              = Cardinality({i \in ExportedIndices : i >= 0})

\* Two actions of index 0 were exported; the file holds the second only.
C27_SameIndexWitness ==
    /\ xp_parsed.read
    /\ Len(xp_job.actions) = 2
    /\ Exportable = {1, 2}
    /\ xp_job.actions[1].index = 0
    /\ xp_job.actions[2].index = 0
    /\ ~xp_job.actions[1].from_ean
    /\ ~xp_job.actions[2].from_ean
    /\ Len(xp_parsed.animations) = 1
    /\ xp_parsed.animations[1].name = LabelBytes(xp_job.actions[2])

\* An action of index -1 and one of index 1 were exported; the file holds
\* two slots and the second action only.
C27_NegativeIndexWitness ==
    /\ xp_parsed.read
    /\ Exportable = {1, 2}
    /\ xp_job.actions[1].index = -1
    /\ xp_job.actions[2].index = 1
    /\ Rd16(xp_result.file, 18) = 2
    /\ Len(xp_parsed.animations) = 1
    /\ xp_parsed.animations[1].index = 1

(***************************************************************************)
(* Properties of export_esk with a source template                         *)
(***************************************************************************)
\* The offset o lies in a table of n entries of the given size at off.
InTable(o, off, n, size) == off <= o /\ o < off + size * n

\* out has the length of data and differs from it only inside the
\* relative-transform table and, when there is one, the absolute-matrix
\* table of the layout.
OnlyTablesDiffer(data, out, layout) ==
    /\ Len(out) = Len(data)
    /\ \A o \in 0..(Len(data) - 1) :
          out[o + 1] # data[o + 1] =>
              \/ InTable(o, layout.rel_off, layout.bone_count, 48)
              \/ layout.abs_off # 0 /\ InTable(o, layout.abs_off, layout.bone_count, 64)

\* The source is a file whose bone count and ordered bone names are those
\* of the bones to export.
SourceHasBones(source, bones) ==
    /\ source.path # <<>>
    /\ source.is_file
    /\ Bind(_read_skeleton_layout(source.data), LAMBDA layout :
          /\ layout.ok
          /\ layout.bone_count = Len(bones)
          /\ layout.names = [i \in 1..Len(bones) |-> bones[i].name])

\* C28: a file export_esk wrote through the source template has the length
\* of the source and differs from it only inside the relative-transform
\* table (48 bytes per bone) and, when the source has one, the
\* absolute-matrix table (64 bytes per bone); the template is used only when
\* the bone count and the ordered bone names of the source are the
\* armature's, and any other export is the file built from scratch, which
\* holds the armature's bones and nothing of the source.
C28_TemplateChangesTablesOnly ==
    tp_result.made =>
        /\ tp_result.template =>
              /\ SourceHasBones(tp_arm.source, TplBones(tp_arm))
              /\ OnlyTablesDiffer(tp_arm.source.data, tp_result.out,
                                  _read_skeleton_layout(tp_arm.source.data))
              /\ tp_layout.read =>
                    tp_layout.layout = _read_skeleton_layout(tp_arm.source.data)
        /\ ~tp_result.template =>
              /\ tp_result.out = RebuiltEsk(TplBones(tp_arm))
              /\ tp_layout.read =>
                    /\ tp_layout.layout.ok
                    /\ tp_layout.layout.bone_count = Len(tp_arm.bones) + 1
                    /\ tp_layout.layout.names
                          = <<tp_arm.name>> \o [k \in 1..Len(tp_arm.bones) |-> tp_arm.bones[k].name]

\* The template was used on a source with both tables and further data
\* after them: bytes of both tables changed, the further data did not.
C28_Witness ==
    /\ tp_result.made
    /\ tp_result.template
    /\ Len(tp_arm.bones) = 2
    /\ Bind(_read_skeleton_layout(tp_arm.source.data), LAMBDA layout :
          /\ layout.abs_off # 0
          /\ Len(tp_arm.source.data) > layout.abs_off + 64 * layout.bone_count
          /\ \E o \in 0..(Len(tp_arm.source.data) - 1) :
                /\ InTable(o, layout.rel_off, layout.bone_count, 48)
                /\ tp_result.out[o + 1] # tp_arm.source.data[o + 1]
          /\ \E o \in 0..(Len(tp_arm.source.data) - 1) :
                /\ InTable(o, layout.abs_off, layout.bone_count, 64)
                /\ tp_result.out[o + 1] # tp_arm.source.data[o + 1])

\* The template was used on a source without an absolute-matrix table.
C28_NoAbsoluteWitness ==
    /\ tp_result.made
    /\ tp_result.template
    /\ _read_skeleton_layout(tp_arm.source.data).abs_off = 0
    /\ tp_result.out # tp_arm.source.data

\* A readable source with other bone names, or tables that do not fit: the
\* file was built from scratch.
C28_RebuiltWitness ==
    /\ tp_layout.read
    /\ ~tp_result.template
    /\ tp_arm.source.is_file
    /\ _read_skeleton_layout(tp_arm.source.data).ok
    /\ ~SourceHasBones(tp_arm.source, TplBones(tp_arm))

C28_CutSourceWitness ==
    /\ tp_result.made
    /\ ~tp_result.template
    /\ SourceHasBones(tp_arm.source, TplBones(tp_arm))

(***************************************************************************)
(* Properties of the vertex de-duplication                                 *)
(***************************************************************************)
\* The per-vertex channels _write_emd writes for a vertex (the tangent is
\* the default of EMD_Vertex for every vertex the exporter builds).
WrittenChannels(vtx) ==
    <<vtx.pos, vtx.normal, vtx.uv, vtx.uv2, vtx.color, vtx.bone_ids, vtx.bone_weights>>

\* Every index appended to a triangle group refers to a vertex of the list.
IndicesInList ==
    \A g \in 1..Len(dd_groups) : \A k \in 1..Len(dd_groups[g].indices) :
        dd_groups[g].indices[k] \in 0..(Len(dd_vertices) - 1)

\* C29: two corners share an exported vertex only when they agree on every
\* written channel (position, normal, both UV sets, colour, bone indices and
\* bone weights), corners that differ in a written channel get distinct
\* vertices, and every index appended to a triangle group refers to an
\* existing entry of the vertex list.
C29_MergedOnlyWhenAllChannelsAgree ==
    /\ \A a, b \in 1..Len(dd_log) :
          dd_log[a].index = dd_log[b].index
              <=> WrittenChannels(dd_log[a].vtx) = WrittenChannels(dd_log[b].vtx)
    /\ IndicesInList

\* What the code keeps: two corners share a vertex exactly when they agree
\* on the key (position, normal, both UV sets, bone indices and weights),
\* the vertex holds the channels of the first corner of that key, colour
\* included, and the indices refer to vertices of the list.
C29_MergedByKey ==
    /\ \A a, b \in 1..Len(dd_log) :
          dd_log[a].index = dd_log[b].index <=> LoopKey(dd_log[a].vtx) = LoopKey(dd_log[b].vtx)
    /\ \A a \in 1..Len(dd_log) :
          /\ dd_log[a].index \in 0..(Len(dd_vertices) - 1)
          /\ \E f \in 1..a :
                /\ LoopKey(dd_log[f].vtx) = LoopKey(dd_log[a].vtx)
                /\ \A e \in 1..(f - 1) : LoopKey(dd_log[e].vtx) # LoopKey(dd_log[a].vtx)
                /\ dd_vertices[dd_log[a].index + 1] = dd_log[f].vtx
    /\ IndicesInList

\* Two corners that differ in colour only were merged: the vertex has the
\* colour of the first.
C29_ColourMergedWitness ==
    \E a, b \in 1..Len(dd_log) :
        /\ a < b
        /\ dd_log[a].index = dd_log[b].index
        /\ dd_log[a].vtx.color # dd_log[b].vtx.color
        /\ dd_vertices[dd_log[a].index + 1].color = dd_log[a].vtx.color

\* Two corners at the same position that differ in the second UV set, or in
\* the bone weights, got distinct vertices.
C29_SplitWitness ==
    /\ \E a, b \in 1..Len(dd_log) :
          /\ dd_log[a].index # dd_log[b].index
          /\ dd_log[a].vtx.uv2 # dd_log[b].vtx.uv2
          /\ [dd_log[a].vtx EXCEPT !.uv2 = <<0, 0>>] = [dd_log[b].vtx EXCEPT !.uv2 = <<0, 0>>]
    /\ Len(dd_log) = 6

(***************************************************************************)
(* Properties of the recursion over parent indices                         *)
(***************************************************************************)
\* The bone reached from b after k recursive calls, -1 when the chain of
\* calls ends before.
RECURSIVE CalledAfter(_, _, _, _)
CalledAfter(fn, bones, b, k) ==
    IF k = 0 THEN b
    ELSE IF CallsParent(fn, bones, b)
         THEN CalledAfter(fn, bones, bones[b + 1].parent_index, k - 1)
         ELSE -1

\* Some bone is reached again from itself: a bone that is its own parent
\* (compute_abs only, compute_world does not call for it), two bones that
\* name each other, or a longer cycle.
CallsInCycle(fn, bones) ==
    \E b \in 0..(Len(bones) - 1) : \E k \in 1..Len(bones) : CalledAfter(fn, bones, b, k) = b

\* C30: the recursion over the parent indices ends for every skeleton the
\* decoders return, a bone that is its own parent and two bones that name
\* each other included: no chain of calls grows until the interpreter
\* raises RecursionError, and the matrix of a bone is computed at most once.
C30_RecursionEnds ==
    /\ rc_status # "RecursionError"
    /\ \A b \in DOMAIN rc_count : rc_count[b] <= 1

\* What the code keeps: the matrix of a bone is computed at most once, the
\* chain of calls of a skeleton without a cycle is never longer than the
\* number of bones, and RecursionError is raised only on a skeleton with a
\* cycle; compute_world of build_armature raises it on every such skeleton.
C30_EndsWithoutCycle ==
    /\ \A b \in DOMAIN rc_count : rc_count[b] <= 1
    /\ ~CallsInCycle(rc_fn, rc_bones) =>
          /\ rc_status # "RecursionError"
          /\ Len(rc_stack) <= Len(rc_bones)
    /\ rc_fn = "build_armature" /\ rc_status = "returned" => ~CallsInCycle(rc_fn, rc_bones)
    /\ rc_fn = "_pack_absolute_transforms" => ~CallsInCycle(rc_fn, rc_bones)

\* compute_abs was called for a bone that is its own parent.
C30_SelfParentWitness ==
    /\ rc_status = "RecursionError"
    /\ rc_fn = "_build_rest_from_esk"
    /\ \E b \in 0..(Len(rc_bones) - 1) : rc_bones[b + 1].parent_index = b
    /\ \A b \in 0..(Len(rc_bones) - 1) : rc_bones[b + 1].parent_index \in {-1, b}

\* compute_world of build_armature was called on two bones that name each
\* other as parent.
C30_TwoBoneCycleWitness ==
    /\ rc_status = "RecursionError"
    /\ rc_fn = "build_armature"
    /\ Len(rc_bones) = 2
    /\ rc_bones[1].parent_index = 1
    /\ rc_bones[2].parent_index = 0

\* compute_world returned on a skeleton with a bone that is its own parent.
C30_SelfParentReturnedWitness ==
    /\ rc_status = "returned"
    /\ rc_fn = "build_armature"
    /\ \E b \in 1..(Len(rc_bones) - 1) : rc_bones[b + 1].parent_index = b
    /\ \A b \in DOMAIN rc_count : b >= 1 => rc_count[b] = 1

\* compute_abs returned on a skeleton with a cycle: the bones of the cycle
\* have the name of a bone computed before them.
C30_MaskedCycleWitness ==
    /\ rc_status = "returned"
    /\ rc_fn = "_build_rest_from_esk"
    /\ CallsInCycle(rc_fn, rc_bones)

=============================================================================
